---- MODULE Spec2Model ----
EXTENDS Integers, Sequences, FiniteSets, Bags, TLC

(***************************************************************************)
(* Stargazer: paginated fetch of starred repositories (GitHubService),     *)
(* the IndexedDB cache (StarsDbService) and the useRepositories store.     *)
(* One step of the model is one event-loop task: the event that wakes a    *)
(* promise together with every continuation that runs before the next      *)
(* event is delivered.                                                     *)
(***************************************************************************)

\* ---------------------------------------------------------------- bounds
MaxPages == 3
MaxId == 3
MaxPerPage == 1
MaxOps == 2
MaxLinks == 2
MaxRepos == 3
MaxTime == 4
MaxTimers == 3
MaxSettingsOps == 4
MaxExecutes == 3
MaxAdvances == 2
MaxGetOrSets == 2
MaxErrors == 3

\* ------------------------------------------------------ program constants
PER_PAGE == 100
FirstPage == 1
defaultTtl == 300000

NULL == "<null>"
NoPage == 0 - 1

Range(f) == {f[i] : i \in DOMAIN f}

Pages == 1..MaxPages
Repository == [id : 1..MaxId]
Bodies == UNION {[1..n -> Repository] : n \in 0..MaxPerPage}

Usernames == {NULL, "octocat"}
Tokens == {NULL, "", "ghp_tok"}

\* HTTP statuses a page request is answered with when it is not OK, and the
\* reason phrase the transport reports for them (empty over HTTP/2).
ErrorStatuses == {401, 403, 404, 500}

ReasonPhrase(status) ==
    CASE status = 401 -> "Unauthorized"
      [] status = 403 -> "Forbidden"
      [] status = 404 -> "Not Found"
      [] OTHER -> "Internal Server Error"

StatusTexts(status) == {ReasonPhrase(status), ""}

\* The failure class of the specification's taxonomy an outcome belongs to.
FailureClass(status) ==
    CASE status = 401 -> "AuthenticationFailed"
      [] status = 403 -> "RateLimited"
      [] status >= 500 -> "UpstreamServerError"
      [] OTHER -> "RequestFailed"

TransportMessage == "Failed to fetch"
JsonMessage == "Unexpected end of JSON input"
TokenRequiredMessage == "GitHub token required"
CredentialsMessage == "Please configure your GitHub credentials in Settings"
PutMessage == "The transaction was aborted"
GetAllMessage == "The operation failed"

\* ---------------------------------------------------- Link header model
\* A Link header is a sequence of entries <url>; rel="...".  Of an entry the
\* model keeps the rel value, whether it is written ; rel="..." right after
\* the >, and the text that follows [&?]page= in the url, as its characters
\* (empty when the url has no such parameter).  null and '' are the empty
\* header.
DigitChars == <<"0", "1", "2", "3", "4", "5", "6", "7", "8", "9">>
Digits == Range(DigitChars)
DigitValue(c) == (CHOOSE d \in DOMAIN DigitChars : DigitChars[d] = c) - 1

RECURSIVE Decimal(_)
Decimal(n) ==
    IF n < 10 THEN <<DigitChars[n + 1]>>
    ELSE Decimal(n \div 10) \o <<DigitChars[(n % 10) + 1]>>

\* (\d+): the longest run of digits the text starts with.
RECURSIVE DigitsPrefix(_)
DigitsPrefix(text) ==
    IF text = <<>> \/ Head(text) \notin Digits THEN <<>>
    ELSE <<Head(text)>> \o DigitsPrefix(Tail(text))

\* parseInt of a run of digits.
RECURSIVE parseInt(_)
parseInt(ds) ==
    IF ds = <<>> THEN 0
    ELSE parseInt(SubSeq(ds, 1, Len(ds) - 1)) * 10 + DigitValue(ds[Len(ds)])

Link(rel, page) ==
    [rel |-> rel, quoted |-> TRUE,
     page |-> IF page = NoPage THEN <<>> ELSE Decimal(page)]
NoHeader == <<>>
LinkHeaders ==
    {NoHeader, <<Link("next", 2)>>, <<Link("next", 2), Link("last", NoPage)>>}
    \cup {<<Link("next", 2), Link("last", n)>> : n \in Pages}
    \cup {<<Link("last", n)>> : n \in Pages}

Min(S) == CHOOSE x \in S : \A y \in S : x <= y

\* The entries of the header the regular expression of getLastPage matches.
LastMatches(linkHeader) ==
    {i \in DOMAIN linkHeader :
        /\ linkHeader[i].rel = "last"
        /\ linkHeader[i].quoted
        /\ DigitsPrefix(linkHeader[i].page) # <<>>}

\* What a call ends with when it throws instead of returning.
Threw == 0 - 2

getLastPageUnguarded(linkHeader) ==
    IF linkHeader = NoHeader THEN Threw
    ELSE LET matches == LastMatches(linkHeader)
         IN  IF matches # {}
             THEN parseInt(DigitsPrefix(linkHeader[Min(matches)].page))
             ELSE 1
getLastPage(linkHeader) ==
    IF linkHeader = NoHeader THEN 1
    ELSE LET matches == LastMatches(linkHeader)
         IN  IF matches # {}
             THEN parseInt(DigitsPrefix(linkHeader[Min(matches)].page))
             ELSE 1

\* -------------------------------------------------------- pure helpers
TokenMissingNullOnly(t) == t = NULL
TokenMissing(t) == t = NULL \/ t = ""

FetchPageError(page, statusText) ==
    "Failed to fetch page " \o ToString(page) \o ": " \o statusText

RemainingPagesFromFirst(total) == 1..total
RemainingPages(total) == 2..total

\* Promise.all over the promises S whose outcomes are st[i].
PromiseAllIgnoringFailures(st, S) ==
    IF \A i \in S : st[i] \in {"ok", "fail"} THEN "resolved" ELSE "pending"
PromiseAll(st, S) ==
    IF \E i \in S : st[i] = "fail" THEN "rejected"
    ELSE IF \A i \in S : st[i] = "ok" THEN "resolved"
    ELSE "pending"

RECURSIVE FlatPages(_, _)
FlatPages(d, ps) ==
    IF ps = <<>> THEN <<>> ELSE d[Head(ps)] \o FlatPages(d, Tail(ps))

RECURSIVE Ascending(_, _)
Ascending(lo, hi) == IF lo > hi THEN <<>> ELSE <<lo>> \o Ascending(lo + 1, hi)

SeqOfSet(S) == IF S = {} THEN <<>> ELSE Ascending(Min(S), Min(S) + Cardinality(S) - 1)

\* [...allRepos, ...remainingRepos.flat()]: page 1, then the bodies in the
\* order of the promise array (index order), read = pages whose body is held.
CollectInCompletionOrder(d, read, order) ==
    d[1] \o FlatPages(d, SelectSeq(order, LAMBDA p : p \in read))
Collect(d, read, order) ==
    d[1] \o FlatPages(d, SelectSeq(Ascending(2, MaxPages), LAMBDA p : p \in read))

\* ------------------------------------------------------- cache helpers
NoRecord == [id |-> 0, repository |-> [id |-> 0], timestamp |-> 0]

\* The record saveStars builds for one star.
StarRecord(star, now) == [id |-> star.id, repository |-> star, timestamp |-> now]

\* IDBObjectStore.put on the 'stars' store (keyPath 'id'): insert or replace.
PutRecordLost(store, record) == store
PutRecordAddOnly(store, record) ==
    IF store[record.id] = NoRecord THEN [store EXCEPT ![record.id] = record] ELSE store
PutRecord(store, record) == [store EXCEPT ![record.id] = record]

\* getAll() returns the records in key order; getCachedStars maps them to
\* their repository.
RECURSIVE RecordsFrom(_, _)
RecordsFrom(store, k) ==
    IF k > MaxId THEN <<>>
    ELSE (IF store[k] = NoRecord THEN <<>> ELSE <<store[k]>>)
         \o RecordsFrom(store, k + 1)
getAll(store) == RecordsFrom(store, 1)
getCachedStarsUnmapped(store) == getAll(store)
getCachedStars(store) ==
    [i \in DOMAIN getAll(store) |-> getAll(store)[i].repository]

\* The repositories a client of StarsDbService saves: an id and a field that
\* changes between two fetches of the same repository.
Stars == [id : 1..MaxId, stargazers_count : {10, 20}]

\* Collections of them as the API delivers them: no id twice.
StarLists ==
    {l \in UNION {[1..n -> Stars] : n \in 0..MaxId} :
        \A i, j \in DOMAIN l : i < j => l[i].id < l[j].id}

\* ------------------------------------------------ useSearch helpers
\* debounceMs, in the unit of the clock.
DebounceMs == 2
SearchTerms == {"", "react", "vue"}

initialSearchState ==
    [term |-> "", sortBy |-> "relevance", debouncedTerm |-> "", isSearching |-> FALSE]

\* setTimeout(callback, debounceMs) at time now: the timer that will write term.
\* orphaned records that clear, reset or destroy was called after it was set.
SetTimeoutAtOnce(ts, term, now) ==
    Append(ts, [term |-> term, set |-> now, due |-> now,
                status |-> "pending", orphaned |-> FALSE])
SetTimeout(ts, term, now) ==
    Append(ts, [term |-> term, set |-> now, due |-> now + DebounceMs,
                status |-> "pending", orphaned |-> FALSE])

\* if (debounceTimeout) clearTimeout(debounceTimeout): a timer that has
\* fired or was cleared is left as it is.
ClearTimeoutIgnored(ts, handle) == ts
ClearTimeout(ts, handle) ==
    [i \in DOMAIN ts |-> IF i = handle /\ ts[i].status = "pending"
                         THEN [ts[i] EXCEPT !.status = "cleared"] ELSE ts[i]]

Orphan(ts) == [i \in DOMAIN ts |-> [ts[i] EXCEPT !.orphaned = TRUE]]

\* ------------------------------------------------ useSettings helpers
initialSettingsState ==
    [username |-> "", token |-> "", loading |-> FALSE, error |-> NULL, isDirty |-> FALSE]

SettingNames == {"", "octocat"}
SettingTokens == {"", "ghp_tok"}

\* result?.value || null and username || '' : what a falsy value becomes.
OrNull(v) == IF v = NULL \/ v = "" THEN NULL ELSE v
OrEmpty(v) == IF v = NULL \/ v = "" THEN "" ELSE v

OnSettingsStart(s) == [s EXCEPT !.loading = TRUE, !.error = NULL]
OnSettingsLoaded(s, username, token) ==
    [s EXCEPT !.username = OrEmpty(username), !.token = OrEmpty(token),
              !.loading = FALSE, !.isDirty = FALSE]
OnSettingsSaved(s) == [s EXCEPT !.loading = FALSE, !.isDirty = FALSE]
OnSettingsFailureClean(s, message) ==
    [s EXCEPT !.error = message, !.loading = FALSE, !.isDirty = FALSE]
OnSettingsFailure(s, message) == [s EXCEPT !.error = message, !.loading = FALSE]
OnSetUsername(s, username) == [s EXCEPT !.username = username, !.isDirty = TRUE]
OnSetToken(s, token) == [s EXCEPT !.token = token, !.isDirty = TRUE]

\* ------------------------------------------------ useAsyncOperation helpers
initialAsyncState == [data |-> NULL, loading |-> FALSE, error |-> NULL]

\* What an operation resolves with and what it throws: an Error, a string,
\* an object that is neither.
OperationResults == {"r1", "r2"}
Thrown ==
    {[kind |-> "Error", message |-> "boom"],
     [kind |-> "string", message |-> "oops"],
     [kind |-> "object", message |-> "plain"]}

ErrorMessageOfErrorsOnly(e) ==
    IF e.kind = "Error" THEN e.message ELSE "Unknown error occurred"
ErrorMessage(e) ==
    IF e.kind = "string" THEN e.message
    ELSE IF e.kind = "Error" THEN e.message
    ELSE "Unknown error occurred"

OnExecuteStart(s) == [s EXCEPT !.loading = TRUE, !.error = NULL]
OnExecuteSuccess(s, result) == [s EXCEPT !.data = result, !.loading = FALSE, !.error = NULL]
OnExecuteFailure(s, e) ==
    [s EXCEPT !.data = NULL, !.loading = FALSE, !.error = ErrorMessage(e)]

\* How execute ends after a failure: it rethrows or returns null.
ExecuteFailureEnd(e, rethrow) ==
    IF rethrow THEN [status |-> "threw", value |-> e]
    ELSE [status |-> "returned", value |-> NULL]

\* ------------------------------------------------ CacheService helpers
CacheKeys == {"key1", "key2"}
CacheValues == {"value", NULL}
Ttls == {0 - 1, 0, 1}
TimeSteps == {1, defaultTtl}

NoEntry == [present |-> FALSE, data |-> NULL, timestamp |-> 0, ttl |-> 0]
NoSet == [called |-> FALSE, data |-> NULL, time |-> 0, ttl |-> 0]
NoCall == [op |-> "none", key |-> "", value |-> NULL, flag |-> FALSE]

\* The ttl parameter of set: the default when the argument is omitted.
TtlOrDefault(given, ttl) == IF given THEN ttl ELSE defaultTtl

\* now - entry.timestamp > entry.ttl
ExpiredAtTtl(entry, now) == now - entry.timestamp >= entry.ttl
Expired(entry, now) == now - entry.timestamp > entry.ttl

\* What get(key) returns and the cache it leaves.
GetValue(c, key, now) ==
    IF ~c[key].present \/ Expired(c[key], now) THEN NULL ELSE c[key].data
GetCache(c, key, now) ==
    IF c[key].present /\ Expired(c[key], now) THEN [c EXCEPT ![key] = NoEntry] ELSE c

\* The cache set(key, data, ttl) leaves.
SetCache(c, key, data, ttl, now) ==
    IF ttl <= 0 THEN c
    ELSE [c EXCEPT ![key] = [present |-> TRUE, data |-> data, timestamp |-> now,
                             ttl |-> ttl]]

\* ------------------------------------------------ useErrorHandler helpers
\* currentError when it is null.
NoError == [id |-> "", n |-> 0, severity |-> "", message |-> ""]

\* What generateErrorId may return: the time and a random suffix, which two
\* calls may in principle share.
ErrorIds == {"error_1", "error_2"}
Severities == {"error", "warning"}

\* What handleError is handed: an Error, a string, an object with a message
\* and a value with none.
Handled ==
    {[kind |-> "Error", message |-> "boom"],
     [kind |-> "string", message |-> "First error"],
     [kind |-> "object", message |-> "bad"],
     [kind |-> "number", message |-> ""]}

extractErrorMessage(e) ==
    IF e.kind \in {"Error", "string", "object"} THEN e.message
    ELSE "An unknown error occurred"

\* The state updates of handleError, clearCurrentError, clearAllErrors and
\* removeError.
OnHandleError(es, appError) ==
    [errors |-> Append(es.errors, appError), currentError |-> appError]

OnClearCurrentError(es) == [es EXCEPT !.currentError = NoError]

OnClearAllErrors(es) == [errors |-> <<>>, currentError |-> NoError]

OnRemoveErrorFromListOnly(es, errorId) ==
    [es EXCEPT !.errors = SelectSeq(es.errors, LAMBDA err : err.id # errorId)]
OnRemoveError(es, errorId) ==
    [errors |-> SelectSeq(es.errors, LAMBDA err : err.id # errorId),
     currentError |-> IF es.currentError # NoError /\ es.currentError.id = errorId
                      THEN NoError ELSE es.currentError]

\* ------------------------------------------------ useProgress helpers
\* useProgress: the store before any call, after start(), after complete()
\* and after update(current, total), which the callback of createCallback
\* calls.
ProgressInitial == [current |-> 0, total |-> 0, visible |-> FALSE]
ProgressStart == [current |-> 0, total |-> 1, visible |-> TRUE]
ProgressComplete == [current |-> 0, total |-> 0, visible |-> FALSE]
ProgressUpdateShowing(p, current, total) ==
    [p EXCEPT !.current = current, !.total = total, !.visible = TRUE]
ProgressUpdate(p, current, total) == [p EXCEPT !.current = current, !.total = total]

\* ------------------------------------------------ useRepositories helpers
FalsyNullOnly(s) == s = NULL
Falsy(s) == s = NULL \/ s = ""

initialState ==
    [repositories |-> <<>>, loading |-> FALSE, error |-> NULL,
     searchTerm |-> "", sortBy |-> "relevance"]

OnOperationStart(s) == [s EXCEPT !.loading = TRUE, !.error = NULL]
OnRefreshFailureClearing(s, message) ==
    [s EXCEPT !.repositories = <<>>, !.error = message, !.loading = FALSE]
OnRefreshFailure(s, message) == [s EXCEPT !.error = message, !.loading = FALSE]
OnRefreshSuccess(s, repositories) ==
    [s EXCEPT !.repositories = repositories, !.loading = FALSE]
OnLoadFailureClearing(s, message) ==
    [s EXCEPT !.repositories = <<>>, !.error = message, !.loading = FALSE]
OnLoadFailure(s, message) == [s EXCEPT !.error = message, !.loading = FALSE]
OnLoadSuccessStillLoading(s, repositories) == [s EXCEPT !.repositories = repositories]
OnLoadSuccess(s, repositories) ==
    [s EXCEPT !.repositories = repositories, !.loading = FALSE]

OnSetSearchTerm(s, searchTerm) == [s EXCEPT !.searchTerm = searchTerm]
OnSetSortBy(s, sortBy) == [s EXCEPT !.sortBy = sortBy]
OnClearError(s) == [s EXCEPT !.error = NULL]

SortOptions == {"relevance", "stars", "name", "updated"}
TypedTerms == {"", "react"}

\* The requests fetchAllStarredRepos issues before its first await.
InitialRequestsSpeculative == <<FirstPage, FirstPage + 1>>
InitialRequests == <<FirstPage>>

\* The ids of the items of a page body.
Ids(b) == {b[i].id : i \in DOMAIN b}

\* The API returns every starred repository once: the body b of page p has
\* no id twice and none that another page of the cycle carried.
FreshBody(d, p, b) ==
    /\ \A i, j \in DOMAIN b : i # j => b[i].id # b[j].id
    /\ \A q \in DOMAIN d : q # p => Ids(d[q]) \cap Ids(b) = {}

\* ------------------------------------------------------ search helpers
\* Strings are sequences of characters.  A repository of the search model
\* carries the fields searchRepositories reads.
MinMatchCharLength == 2
NoScore == 0 - 1

\* String.prototype.toLowerCase, character by character.
LowerChar(c) ==
    CASE c = "A" -> "a"
      [] c = "B" -> "b"
      [] c = "C" -> "c"
      [] OTHER -> c
ToLowerCase(t) == [i \in DOMAIN t |-> LowerChar(t[i])]
IsUpper(c) == LowerChar(c) # c

\* String.prototype.trim.
RECURSIVE TrimStart(_)
TrimStart(t) == IF t # <<>> /\ Head(t) = " " THEN TrimStart(Tail(t)) ELSE t
RECURSIVE TrimEnd(_)
TrimEnd(t) ==
    IF t # <<>> /\ t[Len(t)] = " " THEN TrimEnd(SubSeq(t, 1, Len(t) - 1)) ELSE t
Trim(t) == TrimEnd(TrimStart(t))

\* !searchTerm.trim()
IsEmptyString(searchTerm) == searchTerm = <<>>
IsBlank(searchTerm) == Trim(searchTerm) = <<>>

\* new Date(updated_at).getTime(), in days since the epoch.
DateGetTime(updated_at) ==
    CASE updated_at = "2023-10-01T00:00:00Z" -> 19631
      [] updated_at = "2023-12-01T00:00:00Z" -> 19692
      [] OTHER -> 19706

\* The sign of a number, as sort reads what a comparator returns.
Sign(n) == IF n < 0 THEN 0 - 1 ELSE IF n > 0 THEN 1 ELSE 0

\* Code-unit order of the characters and the order of their letters in the
\* collation of localeCompare (which ranks a before B before c).
CodeUnit(c) ==
    CASE c = " " -> 32
      [] c = "A" -> 65
      [] c = "B" -> 66
      [] c = "C" -> 67
      [] c = "a" -> 97
      [] c = "b" -> 98
      [] c = "c" -> 99
      [] OTHER -> 122
Letter(c) == CodeUnit(LowerChar(c))

\* Lexicographic comparison of two strings by key(character).
RECURSIVE CompareBy(_, _, _)
CompareBy(a, b, byLetter) ==
    IF a = <<>> /\ b = <<>> THEN 0
    ELSE IF a = <<>> THEN 0 - 1
    ELSE IF b = <<>> THEN 1
    ELSE LET x == IF byLetter THEN Letter(Head(a)) ELSE CodeUnit(Head(a))
             y == IF byLetter THEN Letter(Head(b)) ELSE CodeUnit(Head(b))
         IN  IF x # y THEN Sign(x - y) ELSE CompareBy(Tail(a), Tail(b), byLetter)

\* Lower case before upper case at the first character that differs in
\* case only.
RECURSIVE CompareCase(_, _)
CompareCase(a, b) ==
    IF a = <<>> \/ b = <<>> THEN 0
    ELSE IF IsUpper(Head(a)) = IsUpper(Head(b)) THEN CompareCase(Tail(a), Tail(b))
    ELSE IF IsUpper(Head(b)) THEN 0 - 1 ELSE 1

\* a.localeCompare(b): the letters decide, then the case.
codeUnitCompare(a, b) == CompareBy(a, b, FALSE)
localeCompare(a, b) ==
    IF CompareBy(a, b, TRUE) # 0 THEN CompareBy(a, b, TRUE) ELSE CompareCase(a, b)

\* a.score ?? 0
ScoreOrZero(r) == IF r.score = NoScore THEN 0 ELSE r.score

\* The comparator of sortRepositories.
CompareBestScoreLast(sortBy, a, b) ==
    CASE sortBy = "relevance" -> ScoreOrZero(b) - ScoreOrZero(a)
      [] sortBy = "stars" -> b.item.stargazers_count - a.item.stargazers_count
      [] sortBy = "name" -> localeCompare(a.item.name, b.item.name)
      [] sortBy = "updated" ->
            DateGetTime(b.item.updated_at) - DateGetTime(a.item.updated_at)
      [] OTHER -> 0
Compare(sortBy, a, b) ==
    CASE sortBy = "relevance" -> ScoreOrZero(a) - ScoreOrZero(b)
      [] sortBy = "stars" -> b.item.stargazers_count - a.item.stargazers_count
      [] sortBy = "name" -> localeCompare(a.item.name, b.item.name)
      [] sortBy = "updated" ->
            DateGetTime(b.item.updated_at) - DateGetTime(a.item.updated_at)
      [] OTHER -> 0

\* Array.prototype.sort: stable, x goes behind every element not after it.
RECURSIVE InsertSorted(_, _, _)
InsertSorted(sorted, x, sortBy) ==
    IF sorted = <<>> THEN <<x>>
    ELSE IF Compare(sortBy, x, sorted[Len(sorted)]) >= 0 THEN Append(sorted, x)
    ELSE Append(InsertSorted(SubSeq(sorted, 1, Len(sorted) - 1), x, sortBy),
                sorted[Len(sorted)])
RECURSIVE SortStable(_, _)
SortStable(rs, sortBy) ==
    IF rs = <<>> THEN <<>>
    ELSE InsertSorted(SortStable(SubSeq(rs, 1, Len(rs) - 1), sortBy), rs[Len(rs)], sortBy)

sortRepositoriesTopStarred(rs, sortBy) ==
    LET sorted == SortStable(rs, sortBy)
    IN  IF sortBy = "stars" /\ Len(sorted) > 1 THEN <<sorted[1].item>>
        ELSE [i \in DOMAIN sorted |-> sorted[i].item]
sortRepositories(rs, sortBy) ==
    LET sorted == SortStable(rs, sortBy) IN [i \in DOMAIN sorted |-> sorted[i].item]

\* fuse.search(pattern) with the options of createFuseInstance, for patterns
\* of at most three characters and texts of fewer than thirty: one error
\* costs 1/3 or more and an occurrence behind position 30 costs more than
\* 0.3, the threshold, so a text matches by equality or by an occurrence of
\* the pattern, and only if its match mask (the characters of the text the
\* pattern contains) has a run of minMatchCharLength.
Occurrences(p, t) ==
    {i \in 1..(Len(t) - Len(p) + 1) : SubSeq(t, i, i + Len(p) - 1) = p}

HasMaskRun(p, t) ==
    \E i \in 1..(Len(t) - MinMatchCharLength + 1) :
        \A k \in 0..(MinMatchCharLength - 1) : t[i + k] \in Range(p)

KeyMatches(pattern, text) ==
    LET p == ToLowerCase(pattern)
        t == ToLowerCase(text)
    IN  /\ t # <<>>
        /\ \/ p = t
           \/ (Occurrences(p, t) # {} /\ HasMaskRun(p, t))

\* The score of a matching text in thousandths: 0 for equality, else the
\* distance of the first occurrence from the start over 100, at least 0.001.
KeyScore(pattern, text) ==
    LET p == ToLowerCase(pattern)
        t == ToLowerCase(text)
    IN  IF p = t THEN 0
        ELSE IF Min(Occurrences(p, t)) = 1 THEN 1
        ELSE (Min(Occurrences(p, t)) - 1) * 10

\* The texts of the keys name, description, owner.login and language; a
\* null description or language is the empty text, which matches nothing.
KeyTexts(item) == <<item.name, item.description, item.owner.login, item.language>>

ItemMatches(pattern, item) ==
    \E k \in DOMAIN KeyTexts(item) : KeyMatches(pattern, KeyTexts(item)[k])

\* The score of an item stands for the one fuse.js computes from the scores
\* of its keys: the best of them.
ItemScore(pattern, item) ==
    Min({KeyScore(pattern, KeyTexts(item)[k]) :
            k \in {j \in DOMAIN KeyTexts(item) : KeyMatches(pattern, KeyTexts(item)[j])}})

\* fuse.search: the matching items with their score, best score first.
FuseSearch(repos, pattern) ==
    LET scored == [i \in DOMAIN repos |->
                     [item |-> repos[i],
                      score |-> IF ItemMatches(pattern, repos[i])
                                THEN ItemScore(pattern, repos[i]) ELSE NoScore]]
    IN  SortStable(SelectSeq(scored, LAMBDA r : r.score # NoScore), "relevance")

searchRepositories(repos, searchTerm, sortBy) ==
    IF IsBlank(searchTerm)
    THEN sortRepositories([i \in DOMAIN repos |-> [item |-> repos[i], score |-> NoScore]],
                          sortBy)
    ELSE LET searchResults == FuseSearch(repos, searchTerm)
         IN  IF Len(searchResults) = 0 THEN <<>>
             ELSE sortRepositories(searchResults, sortBy)

\* The repositories and the terms searchRepositories is called with.
Repo(id, name, description, language, login, stars, updated) ==
    [id |-> id, name |-> name, description |-> description, language |-> language,
     owner |-> [login |-> login], stargazers_count |-> stars, updated_at |-> updated]

Catalogue ==
    {Repo(1, <<"a", "b">>, <<"b", " ", "a", " ", "b">>, <<"C">>, <<"c", "a">>,
          20, "2023-12-01T00:00:00Z"),
     Repo(2, <<"B", "a">>, <<"c", "a", "b">>, <<>>, <<"c", "b">>,
          10, "2023-12-15T00:00:00Z"),
     Repo(3, <<"c", "a">>, <<"c", "c">>, <<"C">>, <<"c", "a">>,
          20, "2023-10-01T00:00:00Z"),
     Repo(4, <<"b", "a">>, <<>>, <<"a", "b">>, <<"b", "b">>,
          10, "2023-12-01T00:00:00Z")}

Collections ==
    {c \in UNION {[1..n -> Catalogue] : n \in 0..MaxRepos} :
        \A i, j \in DOMAIN c : i # j => c[i] # c[j]}

Terms ==
    {<<>>, <<" ">>, <<" ", " ">>, <<"c">>, <<" ", "c">>, <<"a">>,
     <<" ", "a", " ">>, <<"a", "b">>, <<"b", "b">>, <<"z", "z">>}

\* The scores of the results sortRepositories is called with, in thousandths.
ScoreValues == {NoScore, 0, 200}

\* --------------------------------------------------------------- state
VARIABLES
    token,          \* GitHubService.token
    caller,         \* who awaits fetchAllStarredRepos: "none", "direct", "refresh"
    fpc,            \* fetchAllStarredRepos: "idle","page1","body1","pages","bodies","resolved","rejected"
    requests,       \* page numbers passed to fetch(), in issue order, this cycle
    carried,        \* the token in the Authorization header of each request
    resp,           \* per page: "none","pending","ok","fail"
    body,           \* per page, response.json(): "none","pending","ok","fail"
    data,           \* per page: the parsed body
    bodyOrder,      \* pages 2..N in the order their bodies finished
    totalPages,     \* 0 until derived from page 1's Link header
    progressCalls,  \* the <<current, total>> arguments of onProgress, in call order
    fetchResult,    \* the collection returned
    fetchError,     \* message of the error the returned promise rejected with
    failClass,      \* class of the outcome that made the cycle fail
    rpc,            \* useRepositories.refresh: "idle","creds","fetching","saving"
    state,          \* the RepositoryState store
    snapState,      \* RepositoryState when the current refresh was called
    snapCache,      \* the stars store when the current refresh was called
    puts,           \* per item of the last saveStars: "pending","ok","fail"
    saving,         \* the records the last saveStars writes
    saveOutcome,    \* the last saveStars promise: "none","pending","resolved","rejected"
    cache,          \* the 'stars' object store: id -> record
    lpc,            \* useRepositories.load: "idle","reading","done","failed"
    cached,         \* what the last getCachedStars returned
    ops,            \* operations started so far; also the clock of Date.now()
    db,             \* DbService.dbPromise: "pending", "open", "failed"
    calls,          \* the collections passed to saveStars by its client, in call order
    progress,       \* the search view's progress store: current, total, visible
    searchState,    \* useSearch: term, sortBy, debouncedTerm, isSearching
    timers,         \* useSearch: the timers setTimeout created, by handle
    debounceTimeout, \* useSearch: the handle setTimeout returned last, 0 for null
    clock,          \* useSearch: the time of the timers
    settingsState,  \* useSettings: username, token, loading, error, isDirty
    settingsPc,     \* useSettings: "idle", "saving" or "loading"
    currentState,   \* useSettings.save: the username and token it read at its start
    settingsWrites, \* the puts of saveUsername and saveToken, in the order issued
    settingsReads,  \* useSettings.load: the gets of getUsername and getToken
    settingsStored, \* the settings store: the values under 'username' and 'token'
    gitHubTokenCalls, \* the arguments of the setGitHubToken calls of useSettings
    settingsOps,    \* the calls made on useSettings so far
    asyncState,     \* useAsyncOperation: data, loading, error
    asyncCalls,     \* the execute calls: pending, returned a value or threw one
    throwOnError,   \* useAsyncOperation: the option
    serviceCache,   \* CacheService: the entry under each key
    dateNow,        \* CacheService: what Date.now() returns
    advances,       \* how often the time has advanced
    lastSet,        \* for each key the last set call: its data, time and ttl
    cacheOut,       \* CacheService: the last call and what it returned
    getOrSets,      \* CacheService: the getOrSet calls, in call order
    errorState,     \* useErrorHandler: errors and currentError
    errorCount,     \* useErrorHandler: the handleError calls made so far
    inHeader,       \* getLastPage: the Link header it is called with
    outLastPage,    \* getLastPage: what it returned, NoPage before the call
    inRepos,        \* searchRepositories: the collection it is called with
    inTerm,         \* searchRepositories: the term, a string as its characters
    inSortBy,       \* searchRepositories: the sort key
    inScores,       \* sortRepositories: the score of each result, NoScore if missing
    outResults,     \* searchRepositories, sortRepositories: what it returned
    spc             \* "ready" before the call, "done" after searchRepositories,
                    \* "sorted" after sortRepositories

pageVars == <<requests, carried, resp, body, data, bodyOrder, totalPages, progressCalls>>
outcomeVars == <<fpc, fetchResult, fetchError, failClass>>
fetchVars == <<caller, pageVars, outcomeVars>>
refreshVars == <<rpc, state, snapState, snapCache>>
saveVars == <<puts, saving, saveOutcome>>
loadVars == <<lpc, cached>>
appVars == <<token, fetchVars, refreshVars, saveVars, cache, loadVars, ops>>
viewVars == <<progress>>
dbVars == <<db, calls>>
plannerVars == <<inHeader, outLastPage>>
searchVars == <<inRepos, inTerm, inSortBy, inScores, outResults, spc>>
useSearchVars == <<searchState, timers, debounceTimeout, clock>>
settingsVars == <<settingsState, settingsPc, currentState, settingsWrites, settingsReads,
                  settingsStored, gitHubTokenCalls, settingsOps>>
asyncVars == <<asyncState, asyncCalls, throwOnError>>
cacheVars == <<serviceCache, dateNow, advances, lastSet, cacheOut, getOrSets>>
errorVars == <<errorState, errorCount>>
libVars == <<useSearchVars, settingsVars, asyncVars, cacheVars, errorVars>>
nonAppVars == <<dbVars, plannerVars, searchVars, libVars>>
sideVars == <<viewVars, libVars>>
coreVars == <<appVars, viewVars, dbVars, plannerVars, searchVars>>
vars == <<appVars, viewVars, nonAppVars>>

\* The store, the service and the stars database as their constructors leave
\* them.
InitApp ==
    /\ token = NULL
    /\ caller = "none"
    /\ fpc = "idle"
    /\ requests = <<>>
    /\ carried = <<>>
    /\ resp = [p \in Pages |-> "none"]
    /\ body = [p \in Pages |-> "none"]
    /\ data = [p \in Pages |-> <<>>]
    /\ bodyOrder = <<>>
    /\ totalPages = 0
    /\ progressCalls = <<>>
    /\ fetchResult = <<>>
    /\ fetchError = NULL
    /\ failClass = NULL
    /\ rpc = "idle"
    /\ state = initialState
    /\ snapState = initialState
    /\ snapCache = [k \in 1..MaxId |-> NoRecord]
    /\ puts = <<>>
    /\ saving = <<>>
    /\ saveOutcome = "none"
    /\ cache = [k \in 1..MaxId |-> NoRecord]
    /\ lpc = "idle"
    /\ cached = <<>>
    /\ ops = 0
    /\ progress = ProgressInitial

\* useSearch as it is created.
InitUseSearch ==
    /\ searchState = initialSearchState
    /\ timers = <<>>
    /\ debounceTimeout = 0
    /\ clock = 0

\* useSettings as it is created, over an empty settings store.
InitSettings ==
    /\ settingsState = initialSettingsState
    /\ settingsPc = "idle"
    /\ currentState = [username |-> "", token |-> ""]
    /\ settingsWrites = <<>>
    /\ settingsReads = <<>>
    /\ settingsStored = [username |-> NULL, token |-> NULL]
    /\ gitHubTokenCalls = <<>>
    /\ settingsOps = 0

\* useAsyncOperation as it is created without options.
InitAsyncUnused ==
    /\ asyncState = initialAsyncState
    /\ asyncCalls = <<>>
    /\ throwOnError = FALSE

\* CacheService as it is constructed.
InitCache ==
    /\ serviceCache = [k \in CacheKeys |-> NoEntry]
    /\ dateNow = 0
    /\ advances = 0
    /\ lastSet = [k \in CacheKeys |-> NoSet]
    /\ cacheOut = NoCall
    /\ getOrSets = <<>>

\* The composables no view of the application has created yet.
\* useErrorHandler as it is created.
InitErrors ==
    /\ errorState = [errors |-> <<>>, currentError |-> NoError]
    /\ errorCount = 0

InitLibUnused ==
    /\ InitCache
    /\ InitErrors
    /\ InitUseSearch
    /\ InitSettings
    /\ InitAsyncUnused

\* getLastPage and searchRepositories before any call of them.
InitPlannerUnused ==
    /\ inHeader = NoHeader
    /\ outLastPage = NoPage

InitSearchUnused ==
    /\ inRepos = <<>>
    /\ inTerm = <<>>
    /\ inSortBy = "relevance"
    /\ inScores = <<>>
    /\ outResults = <<>>
    /\ spc = "ready"

\* The application once the open request of its database has succeeded.
Init ==
    /\ InitApp
    /\ InitLibUnused
    /\ db = "open"
    /\ calls = <<>>
    /\ InitPlannerUnused
    /\ InitSearchUnused

\* No operation of the store or of the service is awaiting anything.
Idle ==
    /\ rpc = "idle"
    /\ lpc # "reading"
    /\ fpc \in {"idle", "resolved", "rejected"}

\* No request, body read or write of an earlier operation is still in flight.
Quiescent ==
    /\ \A p \in Pages : resp[p] # "pending" /\ body[p] # "pending"
    /\ \A i \in DOMAIN puts : puts[i] # "pending"

\* ------------------------------------------- the search view's progress
\* handleRefresh around the steps of refresh: start() before refresh is
\* called, complete() in the continuation of its await, which runs in the
\* task that settles refresh; in between the progress callback handed to
\* refresh updates the store with the arguments of each onProgress call.
ViewFollows ==
    progress' =
        IF rpc = "idle" /\ rpc' # "idle" THEN ProgressStart
        ELSE IF rpc # "idle" /\ rpc' = "idle" THEN ProgressComplete
        ELSE IF caller' = "refresh" /\ Len(progressCalls') > Len(progressCalls)
        THEN ProgressUpdate(progress, progressCalls'[Len(progressCalls')][1],
                            progressCalls'[Len(progressCalls')][2])
        ELSE progress

\* ------------------------------------------- continuations of refresh
\* refresh's catch block.
RefreshCatch(message) ==
    /\ state' = OnRefreshFailure(state, message)
    /\ rpc' = "idle"

\* saveStars(stars) called by refresh, up to its await; Promise.all of no
\* promise resolves without waiting for any event.
SaveStars(stars) ==
    /\ puts' = [i \in 1..Len(stars) |-> "pending"]
    /\ saving' = [i \in 1..Len(stars) |-> StarRecord(stars[i], ops)]
    /\ LET joined == PromiseAll(puts', DOMAIN puts')
       IN  /\ saveOutcome' = joined
           /\ IF joined = "resolved"
              THEN /\ state' = OnRefreshSuccess(state, stars)
                   /\ rpc' = "idle"
              ELSE /\ state' = state
                   /\ rpc' = "saving"

\* ------------------------------ continuations of fetchAllStarredRepos
FetchRejects(who, message, class) ==
    /\ fpc' = "rejected"
    /\ fetchError' = message
    /\ failClass' = class
    /\ fetchResult' = <<>>
    /\ IF who = "refresh" THEN RefreshCatch(message) ELSE UNCHANGED <<rpc, state>>
    /\ UNCHANGED saveVars

FetchResolves(who, result) ==
    /\ fpc' = "resolved"
    /\ fetchResult' = result
    /\ UNCHANGED <<fetchError, failClass>>
    /\ IF who = "refresh" THEN SaveStars(result) ELSE UNCHANGED <<rpc, state, saveVars>>

FetchContinues(pc) ==
    /\ fpc' = pc
    /\ UNCHANGED <<fetchResult, fetchError, failClass, rpc, state, saveVars>>

\* fetchAllStarredRepos from its call to its first await.
FetchBegin(who, tok) ==
    /\ body' = [p \in Pages |-> "none"]
    /\ data' = [p \in Pages |-> <<>>]
    /\ bodyOrder' = <<>>
    /\ totalPages' = 0
    /\ progressCalls' = <<>>
    /\ IF TokenMissing(tok)
       THEN /\ requests' = <<>>
            /\ carried' = <<>>
            /\ resp' = [p \in Pages |-> "none"]
            /\ FetchRejects(who, TokenRequiredMessage, "MissingCredential")
       ELSE /\ requests' = InitialRequests
            /\ carried' = [i \in DOMAIN InitialRequests |-> tok]
            /\ resp' = [p \in Pages |->
                          IF p \in Range(InitialRequests) THEN "pending" ELSE "none"]
            /\ fpc' = "page1"
            /\ fetchResult' = <<>>
            /\ fetchError' = NULL
            /\ failClass' = NULL
            /\ IF who = "refresh"
               THEN rpc' = "fetching" /\ state' = state
               ELSE UNCHANGED <<rpc, state>>
            /\ UNCHANGED saveVars

PagesJoin(r) == PromiseAll(r, RemainingPages(totalPages))
StartedBodies(b) == {q \in RemainingPages(totalPages) : b[q] # "none"}
BodiesJoin(b) == PromiseAll(b, StartedBodies(b))

\* What follows the settling of the request for page p >= 2, whose error
\* (if it failed) is message/class.
AfterPageSettled(p, message, class) ==
    LET joined == PagesJoin(resp')
    IN  IF fpc = "pages" /\ joined = "rejected"
        THEN /\ FetchRejects(caller, message, class)
             /\ body' = body
        ELSE IF fpc = "pages" /\ joined = "resolved"
        THEN /\ body' = [q \in Pages |->
                           IF q \in RemainingPages(totalPages) /\ resp'[q] = "ok"
                           THEN "pending" ELSE body[q]]
             /\ FetchContinues("bodies")
        ELSE /\ body' = body
             /\ FetchContinues(fpc)

\* ----------------------------------------------------------- actions
\* Every variable that describes one fetch cycle, as a new cycle finds it.
ResetPages ==
    /\ requests' = <<>>
    /\ carried' = <<>>
    /\ resp' = [p \in Pages |-> "none"]
    /\ body' = [p \in Pages |-> "none"]
    /\ data' = [p \in Pages |-> <<>>]
    /\ bodyOrder' = <<>>
    /\ totalPages' = 0
    /\ progressCalls' = <<>>

ResetOutcome ==
    /\ fpc' = "idle"
    /\ fetchResult' = <<>>
    /\ fetchError' = NULL
    /\ failClass' = NULL

\* GitHubService.setToken called by a client of the service.
SetToken(t) ==
    /\ Idle
    /\ token # t
    /\ token' = t
    /\ UNCHANGED <<fetchVars, refreshVars, saveVars, cache, loadVars, ops>>
    /\ ViewFollows
    /\ UNCHANGED nonAppVars

\* github.fetchAllStarredRepos(username, onProgress) called by a client of
\* the service.
FetchDirect ==
    /\ Idle /\ Quiescent
    /\ ops < MaxOps
    /\ ops' = ops + 1
    /\ caller' = "direct"
    /\ FetchBegin("direct", token)
    /\ UNCHANGED <<token, snapState, snapCache, cache, loadVars>>
    /\ ViewFollows
    /\ UNCHANGED nonAppVars

\* The response to the request for page p arrives with an OK status.
PageOk(p, linkHeader) ==
    /\ resp[p] = "pending"
    /\ resp' = [resp EXCEPT ![p] = "ok"]
    /\ IF p = FirstPage /\ fpc = "page1"
       THEN /\ totalPages' = getLastPage(linkHeader)
            /\ body' = [body EXCEPT ![p] = "pending"]
            /\ FetchContinues("body1")
       ELSE /\ totalPages' = totalPages
            /\ AfterPageSettled(p, NULL, NULL)
    /\ UNCHANGED <<token, caller, requests, carried, data, bodyOrder, progressCalls,
                   snapState, snapCache, cache, loadVars, ops>>
    /\ ViewFollows
    /\ UNCHANGED nonAppVars

\* The response to the request for page p arrives with a non-OK status.
PageNotOk(p, status, statusText) ==
    /\ resp[p] = "pending"
    /\ resp' = [resp EXCEPT ![p] = "fail"]
    /\ IF p = FirstPage /\ fpc = "page1"
       THEN /\ FetchRejects(caller, FetchPageError(p, statusText), FailureClass(status))
            /\ body' = body
       ELSE AfterPageSettled(p, FetchPageError(p, statusText), FailureClass(status))
    /\ UNCHANGED <<token, caller, requests, carried, data, bodyOrder, totalPages,
                   progressCalls, snapState, snapCache, cache, loadVars, ops>>
    /\ ViewFollows
    /\ UNCHANGED nonAppVars

\* fetch() for page p rejects: the transport failed.
PageTransportFailure(p) ==
    /\ resp[p] = "pending"
    /\ resp' = [resp EXCEPT ![p] = "fail"]
    /\ IF p = FirstPage /\ fpc = "page1"
       THEN /\ FetchRejects(caller, TransportMessage, "NetworkUnavailable")
            /\ body' = body
       ELSE AfterPageSettled(p, TransportMessage, "NetworkUnavailable")
    /\ UNCHANGED <<token, caller, requests, carried, data, bodyOrder, totalPages,
                   progressCalls, snapState, snapCache, cache, loadVars, ops>>
    /\ ViewFollows
    /\ UNCHANGED nonAppVars

\* response.json() of page p resolves with the array b.
JsonOk(p, b) ==
    /\ body[p] = "pending"
    /\ FreshBody(data, p, b)
    /\ body' = [body EXCEPT ![p] = "ok"]
    /\ data' = [data EXCEPT ![p] = b]
    /\ IF p = FirstPage
       THEN /\ progressCalls' = Append(progressCalls, <<Len(b), totalPages * PER_PAGE>>)
            /\ bodyOrder' = bodyOrder
            /\ IF totalPages > 1
               THEN /\ requests' = requests \o SeqOfSet(RemainingPages(totalPages))
                    /\ carried' = carried \o
                          [i \in 1..Cardinality(RemainingPages(totalPages)) |-> token]
                    /\ resp' = [q \in Pages |->
                                  IF q \in RemainingPages(totalPages)
                                  THEN "pending" ELSE resp[q]]
                    /\ FetchContinues("pages")
               ELSE /\ UNCHANGED <<requests, carried, resp>>
                    /\ FetchResolves(caller, b)
       ELSE /\ progressCalls' = Append(progressCalls, <<p * PER_PAGE, totalPages * PER_PAGE>>)
            /\ bodyOrder' = Append(bodyOrder, p)
            /\ UNCHANGED <<requests, carried, resp>>
            /\ IF fpc = "bodies" /\ BodiesJoin(body') = "resolved"
               THEN FetchResolves(caller,
                        Collect(data', {q \in StartedBodies(body') : body'[q] = "ok"},
                                bodyOrder'))
               ELSE FetchContinues(fpc)
    /\ UNCHANGED <<token, caller, totalPages, snapState, snapCache, cache,
                   loadVars, ops>>
    /\ ViewFollows
    /\ UNCHANGED nonAppVars

\* response.json() of page p rejects: the body is not readable as JSON.
JsonFail(p) ==
    /\ body[p] = "pending"
    /\ body' = [body EXCEPT ![p] = "fail"]
    /\ IF (p = FirstPage /\ fpc = "body1")
          \/ (fpc = "bodies" /\ BodiesJoin(body') = "rejected")
       THEN FetchRejects(caller, JsonMessage, "BodyUnreadable")
       ELSE FetchContinues(fpc)
    /\ UNCHANGED <<token, caller, requests, carried, resp, data, bodyOrder, totalPages,
                   progressCalls, snapState, snapCache, cache, loadVars, ops>>
    /\ ViewFollows
    /\ UNCHANGED nonAppVars

\* useRepositories.refresh is called: up to its first await.
RefreshStart ==
    /\ Idle /\ Quiescent
    /\ ops < MaxOps
    /\ ops' = ops + 1
    /\ state' = OnOperationStart(state)
    /\ snapState' = state
    /\ snapCache' = cache
    /\ rpc' = "creds"
    /\ caller' = "refresh"
    /\ ResetPages
    /\ ResetOutcome
    /\ puts' = <<>>
    /\ saving' = <<>>
    /\ saveOutcome' = "none"
    /\ lpc' = "idle"
    /\ cached' = <<>>
    /\ UNCHANGED <<token, cache>>
    /\ ViewFollows
    /\ UNCHANGED nonAppVars

\* refresh resumes with the username and the token the settings store holds.
RefreshCredentials(username, storedToken) ==
    /\ rpc = "creds"
    /\ db = "open"
    /\ IF Falsy(username) \/ Falsy(storedToken)
       THEN /\ RefreshCatch(CredentialsMessage)
            /\ UNCHANGED <<token, pageVars, outcomeVars, saveVars>>
       ELSE /\ token' = storedToken
            /\ FetchBegin("refresh", token')
    /\ UNCHANGED <<caller, snapState, snapCache, cache, loadVars, ops>>
    /\ ViewFollows
    /\ UNCHANGED nonAppVars

\* What follows the settling of one write of saveStars.
AfterPutSettled ==
    LET joined == PromiseAll(puts', DOMAIN puts')
    IN  IF saveOutcome = "pending" /\ joined # "pending"
        THEN /\ saveOutcome' = joined
             /\ IF rpc # "saving"
                THEN UNCHANGED <<state, rpc>>
                ELSE IF joined = "rejected"
                THEN RefreshCatch(PutMessage)
                ELSE /\ state' = OnRefreshSuccess(state, fetchResult)
                     /\ rpc' = "idle"
        ELSE UNCHANGED <<saveOutcome, state, rpc>>

\* The put request of item i succeeds.  put issues it once dbPromise has
\* resolved (getStore), so no request exists while the database is not open.
PutSuccess(i) ==
    /\ db = "open"
    /\ i \in DOMAIN puts
    /\ puts[i] = "pending"
    /\ puts' = [puts EXCEPT ![i] = "ok"]
    /\ cache' = PutRecord(cache, saving[i])
    /\ AfterPutSettled
    /\ UNCHANGED <<token, fetchVars, snapState, snapCache, saving, loadVars, ops>>
    /\ ViewFollows
    /\ UNCHANGED nonAppVars

\* The put request of item i fails.
PutError(i) ==
    /\ db = "open"
    /\ i \in DOMAIN puts
    /\ puts[i] = "pending"
    /\ puts' = [puts EXCEPT ![i] = "fail"]
    /\ cache' = cache
    /\ AfterPutSettled
    /\ UNCHANGED <<token, fetchVars, snapState, snapCache, saving, loadVars, ops>>
    /\ ViewFollows
    /\ UNCHANGED nonAppVars

\* useRepositories.load is called: up to its await of getCachedStars.
Load ==
    /\ Idle
    /\ \A p \in Pages : resp[p] # "pending" /\ body[p] # "pending"
    /\ ops < MaxOps
    /\ ops' = ops + 1
    /\ state' = OnOperationStart(state)
    /\ lpc' = "reading"
    /\ cached' = <<>>
    /\ caller' = "none"
    /\ ResetPages
    /\ ResetOutcome
    /\ snapState' = initialState
    /\ snapCache' = [k \in 1..MaxId |-> NoRecord]
    /\ UNCHANGED <<token, rpc, saveVars, cache>>
    /\ ViewFollows
    /\ UNCHANGED nonAppVars

\* The getAll request succeeds.  Its read-only transaction was created after
\* the read-write transactions of every put still pending and runs after them.
LoadDone ==
    /\ lpc = "reading"
    /\ \A i \in DOMAIN puts : puts[i] # "pending"
    /\ db = "open"
    /\ cached' = getCachedStars(cache)
    /\ state' = OnLoadSuccess(state, cached')
    /\ lpc' = "done"
    /\ UNCHANGED <<token, fetchVars, rpc, snapState, snapCache, saveVars, cache, ops>>
    /\ ViewFollows
    /\ UNCHANGED nonAppVars

\* The getAll request fails.
LoadFail ==
    /\ db = "open"
    /\ lpc = "reading"
    /\ state' = OnLoadFailure(state, GetAllMessage)
    /\ lpc' = "failed"
    /\ UNCHANGED <<token, fetchVars, rpc, snapState, snapCache, saveVars, cache,
                   cached, ops>>
    /\ ViewFollows
    /\ UNCHANGED nonAppVars

\* ------------------------------------------- getLastPage on its own
\* The page texts of the urls and the headers getLastPage is called with.
PageTexts ==
    {<<>>, <<"2">>, <<"5">>, <<"0">>, <<"1", "2">>, <<"0", "3">>, <<"x">>, <<"2", "x">>}
RawLinks == [rel : {"next", "last"}, quoted : BOOLEAN, page : PageTexts]
RawHeaders == UNION {[1..n -> RawLinks] : n \in 0..MaxLinks}

InitPlanner ==
    /\ InitApp
    /\ InitLibUnused
    /\ db = "open"
    /\ calls = <<>>
    /\ inHeader \in RawHeaders
    /\ outLastPage = NoPage
    /\ InitSearchUnused

\* getLastPage(inHeader) is called and returns or throws.
GetLastPage ==
    /\ outLastPage = NoPage
    /\ outLastPage' = getLastPage(inHeader)
    /\ UNCHANGED <<appVars, dbVars, inHeader, searchVars>>
    /\ UNCHANGED sideVars

NextPlanner == GetLastPage

SpecPlanner == InitPlanner /\ [][NextPlanner]_vars

\* ------------------------------------- searchRepositories on its own
InitSearch ==
    /\ InitApp
    /\ InitLibUnused
    /\ db = "open"
    /\ calls = <<>>
    /\ InitPlannerUnused
    /\ inRepos \in Collections
    /\ inTerm \in Terms
    /\ inSortBy \in SortOptions
    /\ inScores \in [DOMAIN inRepos -> ScoreValues]
    /\ outResults = <<>>
    /\ spc = "ready"

\* searchRepositories(inRepos, inTerm, inSortBy) is called and returns.
SearchRepositories ==
    /\ spc = "ready"
    /\ outResults' = searchRepositories(inRepos, inTerm, inSortBy)
    /\ spc' = "done"
    /\ UNCHANGED <<appVars, dbVars, plannerVars, inRepos, inTerm, inSortBy, inScores>>
    /\ UNCHANGED sideVars

\* The results sortRepositories is called with: inRepos with inScores.
ScoredResults(repos, scores) ==
    [i \in DOMAIN repos |-> [item |-> repos[i], score |-> scores[i]]]

\* sortRepositories(results, inSortBy) is called and returns.
SortRepositories ==
    /\ spc = "ready"
    /\ outResults' = sortRepositories(ScoredResults(inRepos, inScores), inSortBy)
    /\ spc' = "sorted"
    /\ UNCHANGED <<appVars, dbVars, plannerVars, inRepos, inTerm, inSortBy, inScores>>
    /\ UNCHANGED sideVars

NextSearch ==
    \/ SearchRepositories
    \/ SortRepositories

SpecSearch == InitSearch /\ [][NextSearch]_vars

\* ----------------------------------------- StarsDbService on its own
\* The open request of initDB succeeds.
OpenSuccess ==
    /\ db = "pending"
    /\ db' = "open"
    /\ UNCHANGED <<appVars, calls, plannerVars, searchVars>>
    /\ UNCHANGED sideVars

\* The open request of initDB fails (or indexedDB.open throws): dbPromise
\* rejects.  The then() of put, get and getAll has no rejection handler, so
\* none of their promises settles.
OpenError ==
    /\ db = "pending"
    /\ db' = "failed"
    /\ UNCHANGED <<appVars, calls, plannerVars, searchVars>>
    /\ UNCHANGED sideVars

\* starsDb.saveStars(stars) called by a client that awaits one call before
\* it makes the next.
SaveStarsCall(stars) ==
    /\ Idle /\ Quiescent
    /\ ops < MaxOps
    /\ ops' = ops + 1
    /\ calls' = Append(calls, stars)
    /\ snapCache' = cache
    /\ puts' = [i \in 1..Len(stars) |-> "pending"]
    /\ saving' = [i \in 1..Len(stars) |-> StarRecord(stars[i], ops')]
    /\ saveOutcome' = PromiseAll(puts', DOMAIN puts')
    /\ lpc' = "idle"
    /\ cached' = <<>>
    /\ UNCHANGED <<token, fetchVars, rpc, state, snapState, cache, db,
                   plannerVars, searchVars>>
    /\ UNCHANGED sideVars

\* starsDb.getCachedStars() called by a client: up to its await of getAll.
GetCachedStarsCall ==
    /\ Idle
    /\ lpc' = "reading"
    /\ cached' = <<>>
    /\ UNCHANGED <<token, fetchVars, refreshVars, saveVars, cache, ops, dbVars,
                   plannerVars, searchVars>>
    /\ UNCHANGED sideVars

\* The getAll request succeeds, after the transactions of the puts made
\* before it.
GetAllSuccess ==
    /\ db = "open"
    /\ lpc = "reading"
    /\ \A i \in DOMAIN puts : puts[i] # "pending"
    /\ cached' = getCachedStars(cache)
    /\ lpc' = "done"
    /\ UNCHANGED <<token, fetchVars, refreshVars, saveVars, cache, ops, dbVars,
                   plannerVars, searchVars>>
    /\ UNCHANGED sideVars

\* The getAll request fails.
GetAllError ==
    /\ db = "open"
    /\ lpc = "reading"
    /\ lpc' = "failed"
    /\ UNCHANGED <<token, fetchVars, refreshVars, saveVars, cache, cached, ops,
                   dbVars, plannerVars, searchVars>>
    /\ UNCHANGED sideVars

\* The stars store as its constructor leaves it: the open request pending.
InitDb ==
    /\ InitApp
    /\ InitLibUnused
    /\ db = "pending"
    /\ calls = <<>>
    /\ InitPlannerUnused
    /\ InitSearchUnused

NextDb ==
    \/ OpenSuccess
    \/ OpenError
    \/ \E stars \in StarLists : SaveStarsCall(stars)
    \/ \E i \in 1..MaxId : PutSuccess(i)
    \/ \E i \in 1..MaxId : PutError(i)
    \/ GetCachedStarsCall
    \/ GetAllSuccess
    \/ GetAllError

SpecDb == InitDb /\ [][NextDb]_vars

\* ------------------------------- the synchronous actions of the store
\* Each counts as an operation of the client, which bounds their number.
StoreCall ==
    /\ ops < MaxOps
    /\ ops' = ops + 1
    /\ UNCHANGED <<token, fetchVars, rpc, snapState, snapCache, saveVars, cache,
                   loadVars, viewVars, nonAppVars>>

SetSearchTerm(term) ==
    /\ state' = OnSetSearchTerm(state, term)
    /\ StoreCall

SetSortBy(key) ==
    /\ state' = OnSetSortBy(state, key)
    /\ StoreCall

ClearError ==
    /\ state' = OnClearError(state)
    /\ StoreCall

Reset ==
    /\ state' = initialState
    /\ StoreCall

\* The application: the search view drives useRepositories.
Next ==
    \/ RefreshStart
    \/ \E u \in Usernames : \E t \in Tokens : RefreshCredentials(u, t)
    \/ \E p \in Pages : \E h \in (IF p = FirstPage THEN LinkHeaders ELSE {NoHeader}) :
          PageOk(p, h)
    \/ \E p \in Pages : \E s \in ErrorStatuses : \E st \in StatusTexts(s) :
          PageNotOk(p, s, st)
    \/ \E p \in Pages : PageTransportFailure(p)
    \/ \E p \in Pages : \E b \in Bodies : JsonOk(p, b)
    \/ \E p \in Pages : JsonFail(p)
    \/ \E i \in 1..(MaxPages * MaxPerPage) : PutSuccess(i)
    \/ \E i \in 1..(MaxPages * MaxPerPage) : PutError(i)
    \/ Load
    \/ LoadDone
    \/ LoadFail

Spec == Init /\ [][Next]_vars

\* useRepositories.load is called while a refresh is in flight: load and
\* refresh are separate async functions of the store and neither looks at
\* the loading flag.
LoadDuringRefresh ==
    /\ rpc # "idle"
    /\ lpc # "reading"
    /\ ops < MaxOps
    /\ ops' = ops + 1
    /\ state' = OnOperationStart(state)
    /\ lpc' = "reading"
    /\ cached' = <<>>
    /\ UNCHANGED <<token, fetchVars, rpc, snapState, snapCache, saveVars, cache>>
    /\ ViewFollows
    /\ UNCHANGED nonAppVars

\* The application with a caller that does not wait for refresh before it
\* calls load.
NextOverlap ==
    \/ Next
    \/ LoadDuringRefresh

SpecOverlap == Init /\ [][NextOverlap]_vars

\* What the environment does in answer to the application: the open request
\* settles, a read of the settings returns, a page request or a body read
\* settles, a put or the getAll settles.
Settles ==
    \/ OpenSuccess
    \/ OpenError
    \/ \E u \in Usernames : \E t \in Tokens : RefreshCredentials(u, t)
    \/ \E p \in Pages : \E h \in (IF p = FirstPage THEN LinkHeaders ELSE {NoHeader}) :
          PageOk(p, h)
    \/ \E p \in Pages : \E s \in ErrorStatuses : \E st \in StatusTexts(s) :
          PageNotOk(p, s, st)
    \/ \E p \in Pages : PageTransportFailure(p)
    \/ \E p \in Pages : \E b \in Bodies : JsonOk(p, b)
    \/ \E p \in Pages : JsonFail(p)
    \/ \E i \in 1..(MaxPages * MaxPerPage) : PutSuccess(i)
    \/ \E i \in 1..(MaxPages * MaxPerPage) : PutError(i)
    \/ LoadDone
    \/ LoadFail

\* The application started while the database is still being opened; every
\* request the application has issued is answered in the end.
NextOpening ==
    \/ RefreshStart
    \/ Load
    \/ Settles

SpecOpening == InitDb /\ [][NextOpening]_vars /\ WF_vars(Settles)

\* useRepositories driven by a client that uses every action it returns.
NextStore ==
    \/ RefreshStart
    \/ \E u \in Usernames : \E t \in Tokens : RefreshCredentials(u, t)
    \/ \E p \in Pages : \E h \in (IF p = FirstPage THEN LinkHeaders ELSE {NoHeader}) :
          PageOk(p, h)
    \/ \E p \in Pages : \E s \in ErrorStatuses : \E st \in StatusTexts(s) :
          PageNotOk(p, s, st)
    \/ \E p \in Pages : PageTransportFailure(p)
    \/ \E p \in Pages : \E b \in Bodies : JsonOk(p, b)
    \/ \E p \in Pages : JsonFail(p)
    \/ \E i \in 1..(MaxPages * MaxPerPage) : PutSuccess(i)
    \/ \E i \in 1..(MaxPages * MaxPerPage) : PutError(i)
    \/ Load
    \/ LoadDone
    \/ LoadFail
    \/ \E term \in TypedTerms : SetSearchTerm(term)
    \/ \E key \in SortOptions : SetSortBy(key)
    \/ ClearError
    \/ Reset

SpecStore == Init /\ [][NextStore]_vars

\* GitHubService on its own, driven by a client that sets the token and
\* calls fetchAllStarredRepos.
NextService ==
    \/ \E t \in Tokens \ {NULL} : SetToken(t)
    \/ FetchDirect
    \/ \E p \in Pages : \E h \in (IF p = FirstPage THEN LinkHeaders ELSE {NoHeader}) :
          PageOk(p, h)
    \/ \E p \in Pages : \E s \in ErrorStatuses : \E st \in StatusTexts(s) :
          PageNotOk(p, s, st)
    \/ \E p \in Pages : PageTransportFailure(p)
    \/ \E p \in Pages : \E b \in Bodies : JsonOk(p, b)
    \/ \E p \in Pages : JsonFail(p)

SpecService == Init /\ [][NextService]_vars

\* The tokens the settings form saves one after the other.
SavedTokens == {"ghp_tok", "ghp_new"}

\* ServiceManager.setGitHubToken called by useSettings.save when its writes
\* have succeeded: the manager hands the token to the one GitHubService it
\* holds, whatever that service is doing.
SetGitHubToken(t) ==
    /\ ~Falsy(t)
    /\ token # t
    /\ token' = t
    /\ UNCHANGED <<fetchVars, refreshVars, saveVars, cache, loadVars, ops>>
    /\ ViewFollows
    /\ UNCHANGED nonAppVars

\* The service shared by a client that fetches and a settings form that
\* saves a token at any time.
NextSharedService ==
    \/ \E t \in SavedTokens : SetGitHubToken(t)
    \/ FetchDirect
    \/ \E p \in Pages : \E h \in (IF p = FirstPage THEN LinkHeaders ELSE {NoHeader}) :
          PageOk(p, h)
    \/ \E p \in Pages : \E s \in ErrorStatuses : \E st \in StatusTexts(s) :
          PageNotOk(p, s, st)
    \/ \E p \in Pages : PageTransportFailure(p)
    \/ \E p \in Pages : \E b \in Bodies : JsonOk(p, b)
    \/ \E p \in Pages : JsonFail(p)

SpecSharedService == Init /\ [][NextSharedService]_vars

\* ------------------------------------------------------------ useSearch
useSearchFrame == <<coreVars, settingsVars, asyncVars, cacheVars, errorVars>>

\* setTerm(term): the store takes the term, updateDebouncedTerm raises
\* isSearching, clears the timer of the last call and sets a new one.
SetTerm(t) ==
    /\ Len(timers) < MaxTimers
    /\ searchState' = [searchState EXCEPT !.term = t, !.isSearching = TRUE]
    /\ timers' = SetTimeout(ClearTimeout(timers, debounceTimeout), t, clock)
    /\ debounceTimeout' = Len(timers')
    /\ UNCHANGED clock
    /\ UNCHANGED useSearchFrame

\* The callback of timer i runs, at its time or later.
TimerFires(i) ==
    /\ i \in DOMAIN timers
    /\ timers[i].status = "pending"
    /\ clock >= timers[i].due
    /\ searchState' = [searchState EXCEPT !.debouncedTerm = timers[i].term,
                                          !.isSearching = FALSE]
    /\ timers' = [timers EXCEPT ![i].status = "fired"]
    /\ UNCHANGED <<debounceTimeout, clock>>
    /\ UNCHANGED useSearchFrame

\* Time passes; a timer that is due runs before time passes further.
Tick ==
    /\ clock < MaxTime
    /\ \A i \in DOMAIN timers : timers[i].status = "pending" => clock < timers[i].due
    /\ clock' = clock + 1
    /\ UNCHANGED <<searchState, timers, debounceTimeout>>
    /\ UNCHANGED useSearchFrame

SearchSetSortBy(key) ==
    /\ searchState' = [searchState EXCEPT !.sortBy = key]
    /\ UNCHANGED <<timers, debounceTimeout, clock>>
    /\ UNCHANGED useSearchFrame

SearchClear ==
    /\ timers' = ClearTimeout(Orphan(timers), debounceTimeout)
    /\ searchState' = [searchState EXCEPT !.term = "", !.debouncedTerm = "",
                                          !.isSearching = FALSE]
    /\ UNCHANGED <<debounceTimeout, clock>>
    /\ UNCHANGED useSearchFrame

SearchReset ==
    /\ timers' = ClearTimeout(Orphan(timers), debounceTimeout)
    /\ searchState' = initialSearchState
    /\ UNCHANGED <<debounceTimeout, clock>>
    /\ UNCHANGED useSearchFrame

SearchDestroy ==
    /\ timers' = ClearTimeout(Orphan(timers), debounceTimeout)
    /\ UNCHANGED <<searchState, debounceTimeout, clock>>
    /\ UNCHANGED useSearchFrame

NextUseSearch ==
    \/ \E t \in SearchTerms : SetTerm(t)
    \/ \E i \in 1..MaxTimers : TimerFires(i)
    \/ Tick
    \/ \E key \in {"relevance", "stars"} : SearchSetSortBy(key)
    \/ SearchClear
    \/ SearchReset
    \/ SearchDestroy

SpecUseSearch == Init /\ [][NextUseSearch]_vars

\* ---------------------------------------------------------- useSettings
settingsFrame == <<coreVars, useSearchVars, asyncVars, cacheVars, errorVars>>

\* Every call on useSettings counts, which bounds their number.
SettingsCall ==
    /\ settingsOps < MaxSettingsOps
    /\ settingsOps' = settingsOps + 1
    /\ UNCHANGED settingsFrame

SettingsSetUsername(username) ==
    /\ settingsState' = OnSetUsername(settingsState, username)
    /\ SettingsCall
    /\ UNCHANGED <<settingsPc, currentState, settingsWrites, settingsReads,
                   settingsStored, gitHubTokenCalls>>

SettingsSetToken(tok) ==
    /\ settingsState' = OnSetToken(settingsState, tok)
    /\ SettingsCall
    /\ UNCHANGED <<settingsPc, currentState, settingsWrites, settingsReads,
                   settingsStored, gitHubTokenCalls>>

\* save() up to its await: the form offers it while loading is false.
SettingsSave ==
    /\ settingsPc = "idle"
    /\ SettingsCall
    /\ currentState' = [username |-> settingsState.username, token |-> settingsState.token]
    /\ settingsState' = OnSettingsStart(settingsState)
    /\ settingsWrites' = settingsWrites \o
          <<[name |-> "username", value |-> settingsState.username,
             status |-> "pending", op |-> settingsOps'],
            [name |-> "token", value |-> settingsState.token,
             status |-> "pending", op |-> settingsOps']>>
    /\ settingsPc' = "saving"
    /\ UNCHANGED <<settingsReads, settingsStored, gitHubTokenCalls>>

\* The writes of the save in flight, when write i belongs to it.
OwnWrites(ws, i) == {j \in DOMAIN ws : ws[j].op = ws[i].op}

\* The put of write i succeeds; save resumes when it was the second of its two.
SettingsPutSuccess(i) ==
    /\ i \in DOMAIN settingsWrites
    /\ settingsWrites[i].status = "pending"
    /\ settingsWrites' = [j \in DOMAIN settingsWrites |->
                            IF j = i THEN [settingsWrites[j] EXCEPT !.status = "ok"]
                            ELSE settingsWrites[j]]
    /\ settingsStored' = [settingsStored EXCEPT ![settingsWrites[i].name] =
                                                  settingsWrites[i].value]
    /\ IF /\ settingsPc = "saving"
          /\ settingsWrites[i].op = settingsWrites[Len(settingsWrites)].op
          /\ \A j \in OwnWrites(settingsWrites', i) : settingsWrites'[j].status = "ok"
       THEN /\ gitHubTokenCalls' = IF currentState.token # ""
                                   THEN Append(gitHubTokenCalls, currentState.token)
                                   ELSE gitHubTokenCalls
            /\ settingsState' = OnSettingsSaved(settingsState)
            /\ settingsPc' = "idle"
       ELSE UNCHANGED <<gitHubTokenCalls, settingsState, settingsPc>>
    /\ UNCHANGED <<currentState, settingsReads, settingsOps>>
    /\ UNCHANGED settingsFrame

\* The put of write i fails; Promise.all rejects on the first failure.
SettingsPutError(i) ==
    /\ i \in DOMAIN settingsWrites
    /\ settingsWrites[i].status = "pending"
    /\ settingsWrites' = [j \in DOMAIN settingsWrites |->
                            IF j = i THEN [settingsWrites[j] EXCEPT !.status = "fail"]
                            ELSE settingsWrites[j]]
    /\ IF /\ settingsPc = "saving"
          /\ settingsWrites[i].op = settingsWrites[Len(settingsWrites)].op
       THEN /\ settingsState' = OnSettingsFailure(settingsState, PutMessage)
            /\ settingsPc' = "idle"
       ELSE UNCHANGED <<settingsState, settingsPc>>
    /\ UNCHANGED <<currentState, settingsReads, settingsStored, gitHubTokenCalls,
                   settingsOps>>
    /\ UNCHANGED settingsFrame

\* load() up to its await.
SettingsLoad ==
    /\ settingsPc = "idle"
    /\ SettingsCall
    /\ settingsState' = OnSettingsStart(settingsState)
    /\ settingsReads' = <<[status |-> "pending", value |-> NULL],
                          [status |-> "pending", value |-> NULL]>>
    /\ settingsPc' = "loading"
    /\ UNCHANGED <<currentState, settingsWrites, settingsStored, gitHubTokenCalls>>

\* A get succeeds, after the transactions of the puts issued before it;
\* load resumes when it was the second of the two.
SettingsGetSuccess(k) ==
    /\ k \in DOMAIN settingsReads
    /\ settingsReads[k].status = "pending"
    /\ \A j \in DOMAIN settingsWrites : settingsWrites[j].status # "pending"
    /\ settingsReads' = [j \in DOMAIN settingsReads |->
          IF j = k
          THEN [status |-> "ok",
                value |-> OrNull(IF k = 1 THEN settingsStored.username
                                 ELSE settingsStored.token)]
          ELSE settingsReads[j]]
    /\ IF settingsPc = "loading" /\ \A j \in DOMAIN settingsReads : settingsReads'[j].status = "ok"
       THEN /\ settingsState' = OnSettingsLoaded(settingsState, settingsReads'[1].value,
                                                 settingsReads'[2].value)
            /\ settingsPc' = "idle"
       ELSE UNCHANGED <<settingsState, settingsPc>>
    /\ UNCHANGED <<currentState, settingsWrites, settingsStored, gitHubTokenCalls,
                   settingsOps>>
    /\ UNCHANGED settingsFrame

\* A get fails.
SettingsGetError(k) ==
    /\ k \in DOMAIN settingsReads
    /\ settingsReads[k].status = "pending"
    /\ settingsReads' = [j \in DOMAIN settingsReads |->
          IF j = k THEN [status |-> "fail", value |-> NULL] ELSE settingsReads[j]]
    /\ IF settingsPc = "loading"
       THEN /\ settingsState' = OnSettingsFailure(settingsState, GetAllMessage)
            /\ settingsPc' = "idle"
       ELSE UNCHANGED <<settingsState, settingsPc>>
    /\ UNCHANGED <<currentState, settingsWrites, settingsStored, gitHubTokenCalls,
                   settingsOps>>
    /\ UNCHANGED settingsFrame

NextSettings ==
    \/ \E username \in SettingNames : SettingsSetUsername(username)
    \/ \E tok \in SettingTokens : SettingsSetToken(tok)
    \/ SettingsSave
    \/ \E i \in 1..(2 * MaxSettingsOps) : SettingsPutSuccess(i)
    \/ \E i \in 1..(2 * MaxSettingsOps) : SettingsPutError(i)
    \/ SettingsLoad
    \/ \E k \in 1..2 : SettingsGetSuccess(k)
    \/ \E k \in 1..2 : SettingsGetError(k)

SpecSettings == Init /\ [][NextSettings]_vars

\* ---------------------------------------------------- useAsyncOperation
asyncFrame == <<coreVars, useSearchVars, settingsVars, cacheVars, errorVars>>

\* execute(operation) up to its await.
Execute ==
    /\ Len(asyncCalls) < MaxExecutes
    /\ asyncState' = OnExecuteStart(asyncState)
    /\ asyncCalls' = Append(asyncCalls, [status |-> "pending", value |-> NULL])
    /\ UNCHANGED throwOnError
    /\ UNCHANGED asyncFrame

\* The operation of call i resolves with result; execute returns it.
OperationResolves(i, result) ==
    /\ i \in DOMAIN asyncCalls
    /\ asyncCalls[i].status = "pending"
    /\ asyncState' = OnExecuteSuccess(asyncState, result)
    /\ asyncCalls' = [j \in DOMAIN asyncCalls |->
                        IF j = i THEN [status |-> "returned", value |-> result]
                        ELSE asyncCalls[j]]
    /\ UNCHANGED throwOnError
    /\ UNCHANGED asyncFrame

\* The operation of call i throws e; execute updates the state and then
\* rethrows or returns null.
OperationRejects(i, e) ==
    /\ i \in DOMAIN asyncCalls
    /\ asyncCalls[i].status = "pending"
    /\ asyncState' = OnExecuteFailure(asyncState, e)
    /\ asyncCalls' = [j \in DOMAIN asyncCalls |->
                        IF j = i THEN ExecuteFailureEnd(e, throwOnError)
                        ELSE asyncCalls[j]]
    /\ UNCHANGED throwOnError
    /\ UNCHANGED asyncFrame

\* useAsyncOperation created with either value of the option.
InitAsync ==
    /\ InitApp
    /\ db = "open"
    /\ calls = <<>>
    /\ InitPlannerUnused
    /\ InitSearchUnused
    /\ InitUseSearch
    /\ InitSettings
    /\ InitCache
    /\ InitErrors
    /\ asyncState = initialAsyncState
    /\ asyncCalls = <<>>
    /\ throwOnError \in BOOLEAN

NextAsync ==
    \/ Execute
    \/ \E i \in 1..MaxExecutes : \E result \in OperationResults : OperationResolves(i, result)
    \/ \E i \in 1..MaxExecutes : \E e \in Thrown : OperationRejects(i, e)

SpecAsync == InitAsync /\ [][NextAsync]_vars

\* --------------------------------------------------------- CacheService
cacheFrame == <<coreVars, useSearchVars, settingsVars, asyncVars, errorVars>>

\* Time passes.
CacheAdvance(d) ==
    /\ advances < MaxAdvances
    /\ advances' = advances + 1
    /\ dateNow' = dateNow + d
    /\ UNCHANGED <<serviceCache, lastSet, cacheOut>>
    /\ UNCHANGED <<getOrSets, cacheFrame>>

\* set(key, data) and set(key, data, ttl).
CacheSet(key, datum, given, ttl) ==
    /\ serviceCache' = SetCache(serviceCache, key, datum, TtlOrDefault(given, ttl), dateNow)
    /\ lastSet' = [lastSet EXCEPT ![key] =
                      [called |-> TRUE, data |-> datum, time |-> dateNow,
                       ttl |-> IF given THEN ttl ELSE 300000]]
    /\ cacheOut' = [op |-> "set", key |-> key, value |-> NULL, flag |-> FALSE]
    /\ UNCHANGED <<dateNow, advances>>
    /\ UNCHANGED <<getOrSets, cacheFrame>>

\* get(key).
CacheGet(key) ==
    /\ cacheOut' = [op |-> "get", key |-> key,
                    value |-> GetValue(serviceCache, key, dateNow), flag |-> FALSE]
    /\ serviceCache' = GetCache(serviceCache, key, dateNow)
    /\ UNCHANGED <<dateNow, advances, lastSet>>
    /\ UNCHANGED <<getOrSets, cacheFrame>>

\* has(key): get(key) !== null.
CacheHas(key) ==
    /\ cacheOut' = [op |-> "has", key |-> key, value |-> NULL,
                    flag |-> GetValue(serviceCache, key, dateNow) # NULL]
    /\ serviceCache' = GetCache(serviceCache, key, dateNow)
    /\ UNCHANGED <<dateNow, advances, lastSet>>
    /\ UNCHANGED <<getOrSets, cacheFrame>>

\* delete(key); the key has no last set any more.
CacheDelete(key) ==
    /\ cacheOut' = [op |-> "delete", key |-> key, value |-> NULL,
                    flag |-> serviceCache[key].present]
    /\ serviceCache' = [serviceCache EXCEPT ![key] = NoEntry]
    /\ lastSet' = [lastSet EXCEPT ![key] = NoSet]
    /\ UNCHANGED <<dateNow, advances>>
    /\ UNCHANGED <<getOrSets, cacheFrame>>

\* clear().
CacheClear ==
    /\ cacheOut' = [op |-> "clear", key |-> "", value |-> NULL, flag |-> FALSE]
    /\ serviceCache' = [k \in CacheKeys |-> NoEntry]
    /\ lastSet' = [k \in CacheKeys |-> NoSet]
    /\ UNCHANGED <<dateNow, advances>>
    /\ UNCHANGED <<getOrSets, cacheFrame>>

\* cleanup(): the expired entries are removed.
CacheCleanup ==
    /\ cacheOut' = [op |-> "cleanup", key |-> "", value |-> NULL, flag |-> FALSE]
    /\ serviceCache' = [k \in CacheKeys |->
                           IF serviceCache[k].present /\ Expired(serviceCache[k], dateNow)
                           THEN NoEntry ELSE serviceCache[k]]
    /\ UNCHANGED <<dateNow, advances, lastSet>>
    /\ UNCHANGED <<getOrSets, cacheFrame>>

NextCache ==
    \/ \E d \in TimeSteps : CacheAdvance(d)
    \/ \E key \in CacheKeys : \E datum \in CacheValues :
          \/ CacheSet(key, datum, FALSE, 0)
          \/ \E ttl \in Ttls : CacheSet(key, datum, TRUE, ttl)
    \/ \E key \in CacheKeys : CacheGet(key)
    \/ \E key \in CacheKeys : CacheHas(key)
    \/ \E key \in CacheKeys : CacheDelete(key)
    \/ CacheClear
    \/ CacheCleanup

SpecCache == Init /\ [][NextCache]_vars

\* ----------------------------------------------- CacheService.getOrSet
\* What computeFn resolves with.
ComputedValues == {"computed"}

\* getOrSet(key, computeFn, ttl) up to its return or its await: the cached
\* value is returned when get(key) is not null, else computeFn is invoked.
GetOrSetCall(key, given, ttl) ==
    /\ Len(getOrSets) < MaxGetOrSets
    /\ LET hit == GetValue(serviceCache, key, dateNow)
       IN  getOrSets' = Append(getOrSets,
              [key |-> key, ttl |-> TtlOrDefault(given, ttl), at |-> dateNow,
               status |-> IF hit # NULL THEN "hit" ELSE "pending",
               value |-> hit, doneAt |-> dateNow])
    /\ serviceCache' = GetCache(serviceCache, key, dateNow)
    /\ UNCHANGED <<dateNow, advances, lastSet, cacheOut>>
    /\ UNCHANGED cacheFrame

\* computeFn of call i resolves; getOrSet sets the key and returns the value.
ComputeResolves(i, computed) ==
    /\ i \in DOMAIN getOrSets
    /\ getOrSets[i].status = "pending"
    /\ serviceCache' = SetCache(serviceCache, getOrSets[i].key, computed,
                                getOrSets[i].ttl, dateNow)
    /\ lastSet' = [lastSet EXCEPT ![getOrSets[i].key] =
                      [called |-> TRUE, data |-> computed, time |-> dateNow,
                       ttl |-> getOrSets[i].ttl]]
    /\ getOrSets' = [j \in DOMAIN getOrSets |->
                        IF j = i
                        THEN [key |-> getOrSets[i].key, ttl |-> getOrSets[i].ttl,
                              at |-> getOrSets[i].at, status |-> "resolved",
                              value |-> computed, doneAt |-> dateNow]
                        ELSE getOrSets[j]]
    /\ UNCHANGED <<dateNow, advances, cacheOut>>
    /\ UNCHANGED cacheFrame

\* computeFn of call i rejects; getOrSet rejects with it.
ComputeRejects(i) ==
    /\ i \in DOMAIN getOrSets
    /\ getOrSets[i].status = "pending"
    /\ getOrSets' = [j \in DOMAIN getOrSets |->
                        IF j = i
                        THEN [key |-> getOrSets[i].key, ttl |-> getOrSets[i].ttl,
                              at |-> getOrSets[i].at, status |-> "rejected",
                              value |-> NULL, doneAt |-> dateNow]
                        ELSE getOrSets[j]]
    /\ UNCHANGED <<serviceCache, dateNow, advances, lastSet, cacheOut>>
    /\ UNCHANGED cacheFrame

\* CacheService used through set and getOrSet, on one key.
NextGetOrSet ==
    \/ \E d \in TimeSteps : CacheAdvance(d)
    \/ \E datum \in CacheValues :
          \/ CacheSet("key1", datum, FALSE, 0)
          \/ CacheSet("key1", datum, TRUE, 1)
    \/ GetOrSetCall("key1", FALSE, 0)
    \/ \E ttl \in Ttls : GetOrSetCall("key1", TRUE, ttl)
    \/ \E i \in 1..MaxGetOrSets : \E computed \in ComputedValues : ComputeResolves(i, computed)
    \/ \E i \in 1..MaxGetOrSets : ComputeRejects(i)

SpecGetOrSet == Init /\ [][NextGetOrSet]_vars

\* ------------------------------------------------------ useErrorHandler
errorFrame == <<coreVars, useSearchVars, settingsVars, asyncVars, cacheVars>>

\* handleError(error, severity): the record gets the id generateErrorId
\* returned and becomes the last of errors and the current error.
HandleError(e, severity, errorId) ==
    /\ errorCount < MaxErrors
    /\ errorCount' = errorCount + 1
    /\ errorState' = OnHandleError(errorState,
                        [id |-> errorId, n |-> errorCount', severity |-> severity,
                         message |-> extractErrorMessage(e)])
    /\ UNCHANGED errorFrame

ClearCurrentError ==
    /\ errorState' = OnClearCurrentError(errorState)
    /\ UNCHANGED <<errorCount, errorFrame>>

ClearAllErrors ==
    /\ errorState' = OnClearAllErrors(errorState)
    /\ UNCHANGED <<errorCount, errorFrame>>

\* removeError(errorId), called with any id, known or not.
RemoveError(errorId) ==
    /\ errorState' = OnRemoveError(errorState, errorId)
    /\ UNCHANGED <<errorCount, errorFrame>>

NextErrors ==
    \/ \E e \in Handled : \E severity \in Severities : \E errorId \in ErrorIds :
          HandleError(e, severity, errorId)
    \/ ClearCurrentError
    \/ ClearAllErrors
    \/ \E errorId \in ErrorIds : RemoveError(errorId)

SpecErrors == Init /\ [][NextErrors]_vars

\* ============================================================ properties
ItemCount(seq, x) == Cardinality({i \in DOMAIN seq : seq[i] = x})

RECURSIVE CountInPages(_, _, _)
CountInPages(d, n, x) ==
    IF n = 0 THEN 0 ELSE ItemCount(d[n], x) + CountInPages(d, n - 1, x)

RECURSIVE InPageOrder(_, _)
InPageOrder(d, n) == IF n = 0 THEN <<>> ELSE InPageOrder(d, n - 1) \o d[n]

\* C1: once the request for any page 2..totalPages has failed (non-OK status
\* or transport failure), fetchAllStarredRepos has rejected and returned no
\* collection, whatever the other pages did.
C1_FailedPageRejectsWhole ==
    (\E p \in 2..MaxPages : p <= totalPages /\ resp[p] = "fail")
        => /\ fpc = "rejected"
           /\ fetchResult = <<>>
           /\ fetchError # NULL

\* C1 witness: three pages, page 1 and page 3 answered OK, page 2 failed.
C1_Witness ==
    /\ totalPages = 3
    /\ resp[1] = "ok" /\ resp[2] = "fail" /\ resp[3] = "ok"
    /\ fpc = "rejected"

\* C2: after a refresh whose fetch failed on a page, no write was started,
\* the stars store and what getCachedStars reads from it are what they were
\* when refresh was called, and the store state differs from the one at the
\* call only in error and loading.
C2_FailedFetchLeavesCacheAndRepositories ==
    (caller = "refresh" /\ fpc = "rejected")
        => /\ puts = <<>>
           /\ saveOutcome = "none"
           /\ cache = snapCache
           /\ getCachedStars(cache) = getCachedStars(snapCache)
           /\ state = [snapState EXCEPT !.error = fetchError, !.loading = FALSE]
           /\ rpc = "idle"

\* C2 witness: a refresh failed on page 2 while earlier data was cached and
\* held in memory.
C2_Witness ==
    /\ caller = "refresh" /\ fpc = "rejected"
    /\ resp[2] = "fail"
    /\ snapState.repositories # <<>>
    /\ getCachedStars(snapCache) # <<>>

\* C3: a call of fetchAllStarredRepos made while the token is null or ''
\* rejects at once with 'GitHub token required', having issued no request
\* and made no onProgress call.
C3_NoTokenNoRequest ==
    [][(caller' = "direct" /\ ops' = ops + 1 /\ (token = NULL \/ token = ""))
          => /\ fpc' = "rejected"
             /\ fetchError' = TokenRequiredMessage
             /\ requests' = <<>>
             /\ progressCalls' = <<>>
             /\ \A p \in Pages : resp'[p] = "none"]_vars

\* C3 witness: the call was made with the empty string as token.
C3_Witness ==
    /\ caller = "direct"
    /\ token = ""
    /\ fpc = "rejected"
    /\ failClass = "MissingCredential"

\* C4: the first request of a cycle is for page 1; a request for a page >= 2
\* exists only once page 1's response was received and the page count
\* derived from it; when page 1 failed there is no other request.
C4_PageOneFirst ==
    /\ requests # <<>> => Head(requests) = 1
    /\ (\E i \in DOMAIN requests : requests[i] >= 2)
          => /\ resp[1] = "ok"
             /\ totalPages >= 2
             /\ \A i \in DOMAIN requests : requests[i] <= totalPages
    /\ resp[1] = "fail" => requests = <<1>>

\* C4 witness: pages 2 and 3 were requested after page 1 announced 3 pages.
C4_Witness ==
    /\ requests = <<1, 2, 3>>
    /\ totalPages = 3

\* C5: no page is requested twice, and on success there is exactly one
\* request for each page 1..totalPages and the returned collection holds
\* every item of those pages as often as the pages hold it.
C5_EveryPageOnceEveryItem ==
    /\ \A i, j \in DOMAIN requests : i # j => requests[i] # requests[j]
    /\ fpc = "resolved"
          => /\ Len(requests) = totalPages
             /\ Range(requests) = 1..totalPages
             /\ \A x \in Repository :
                   ItemCount(fetchResult, x) = CountInPages(data, totalPages, x)

\* C5 witness: a three-page cycle succeeded with one item per page.
C5_Witness ==
    /\ fpc = "resolved"
    /\ totalPages = 3
    /\ Len(fetchResult) = 3

\* C6: the returned collection is page 1's items followed by those of pages
\* 2..N in ascending page number, whatever order the bodies were read in.
C6_AscendingPageOrder ==
    fpc = "resolved" => fetchResult = InPageOrder(data, totalPages)

\* C6 witness: the body of page 3 was read before that of page 2 and the
\* two pages hold different items.
C6_Witness ==
    /\ fpc = "resolved"
    /\ totalPages = 3
    /\ bodyOrder = <<3, 2>>
    /\ data[2] # <<>> /\ data[3] # <<>> /\ data[2] # data[3]

\* C7: within a cycle the current values of successive onProgress calls are
\* non-decreasing, and once the bodies of pages 2..N are all read the last
\* call has current equal to total.
C7_ProgressMonotone ==
    /\ \A i \in 1..(Len(progressCalls) - 1) :
          progressCalls[i][1] <= progressCalls[i + 1][1]
    /\ (fpc = "resolved" /\ totalPages >= 2)
          => progressCalls[Len(progressCalls)][1] = progressCalls[Len(progressCalls)][2]

FiveClasses ==
    {"AuthenticationFailed", "RateLimited", "UpstreamServerError",
     "NetworkUnavailable", "RequestFailed"}

\* The messages a failure of class c can be surfaced with.
MessagesOfClass(c) ==
    {FetchPageError(p, st) :
        p \in Pages, st \in UNION {StatusTexts(s) : s \in {x \in ErrorStatuses : FailureClass(x) = c}}}
    \cup (IF c = "NetworkUnavailable" THEN {TransportMessage} ELSE {})

\* C8: the error a failed cycle is surfaced with tells the class of the
\* failure: no failure of another of the five classes is surfaced with the
\* same error.
C8_ErrorTellsClass ==
    (fpc = "rejected" /\ failClass \in FiveClasses)
        => \A c \in FiveClasses \ {failClass} : fetchError \notin MessagesOfClass(c)

\* C9: saveStars has resolved or rejected only when every write it started
\* has settled.
C9_SettlesAfterEveryWrite ==
    saveOutcome \in {"resolved", "rejected"}
        => \A i \in DOMAIN puts : puts[i] # "pending"

\* C10: when exactly one write of a saveStars failed, a getCachedStars made
\* afterwards returns, for every other item, the repository saved under that
\* item's id (the item itself, or the item of the same id written over it).
C10_OtherItemsPersisted ==
    (lpc = "done" /\ Cardinality({i \in DOMAIN puts : puts[i] = "fail"}) = 1)
        => \A i \in DOMAIN puts :
              puts[i] = "ok"
                 => \E k \in DOMAIN cached :
                       /\ cached[k].id = saving[i].id
                       /\ \E j \in DOMAIN puts :
                             /\ puts[j] = "ok"
                             /\ saving[j].id = saving[i].id
                             /\ cached[k] = saving[j].repository

\* C10 witness: three items were saved, one write failed, saveStars rejected
\* and the cache was read afterwards.
C10_Witness ==
    /\ lpc = "done"
    /\ Len(puts) = 3
    /\ Cardinality({i \in DOMAIN puts : puts[i] = "fail"}) = 1
    /\ saveOutcome = "rejected"
    /\ \E i, j \in DOMAIN puts : puts[i] = "ok" /\ puts[j] = "ok" /\ saving[i].id # saving[j].id

\* C11: starting from an empty store, after saveStars was called any number
\* of times with one collection and the last call resolved, getCachedStars
\* returns exactly the repositories of that collection, fields included.
C11_SaveStarsIdempotent ==
    (/\ lpc = "done"
     /\ calls # <<>>
     /\ \A i \in DOMAIN calls : calls[i] = calls[1]
     /\ saveOutcome = "resolved")
        => /\ Range(cached) = Range(calls[1])
           /\ Len(cached) = Len(calls[1])

\* C11 witness: the same collection of two repositories was saved twice and
\* read back.
C11_Witness ==
    /\ lpc = "done"
    /\ Len(calls) = 2
    /\ calls[1] = calls[2]
    /\ Len(calls[1]) >= 2
    /\ saveOutcome = "resolved"
    /\ Len(cached) >= 2

\* C12: once a saveStars of a single repository whose id was in the store
\* has resolved, the entry of that id holds the repository passed and the
\* time of the call, and every other entry is what it was at the call.
C12_SingleReplacementFrame ==
    (/\ calls # <<>>
     /\ rpc = "idle" /\ caller = "none"
     /\ Len(saving) = 1
     /\ saveOutcome = "resolved"
     /\ snapCache[saving[1].id] # NoRecord)
        => /\ cache[saving[1].id].repository = calls[Len(calls)][1]
           /\ cache[saving[1].id].timestamp = ops
           /\ cache[saving[1].id].timestamp # snapCache[saving[1].id].timestamp
           /\ \A k \in DOMAIN cache : k # saving[1].id => cache[k] = snapCache[k]

\* C12 witness: the store held three entries and the one replaced got
\* another stargazers_count.
C12_Witness ==
    /\ Len(calls) = 2
    /\ Len(calls[1]) = 3
    /\ Len(saving) = 1
    /\ saveOutcome = "resolved"
    /\ \A k \in 1..3 : snapCache[k] # NoRecord
    /\ cache[saving[1].id].repository # snapCache[saving[1].id].repository

\* C13: a getCachedStars made after a saveStars that resolved returns
\* exactly the collection of that call: no repository saved by an earlier
\* call and absent from it.
C13_WholeCacheReplace ==
    (lpc = "done" /\ calls # <<>> /\ saveOutcome = "resolved")
        => Range(cached) = Range(calls[Len(calls)])

\* C14: once the open request has failed no saveStars and no getCachedStars
\* is pending: the failure has rejected those made before it, and one made
\* after it rejects before the next event.
C14_UnavailableRejects ==
    db = "failed" => (saveOutcome # "pending" /\ lpc # "reading")

\* C15: after a refresh whose fetch succeeded and whose saveStars rejected,
\* the fetched repositories are the in-memory collection.
C15_SaveFailureKeepsFetched ==
    (caller = "refresh" /\ rpc = "idle" /\ fpc = "resolved" /\ saveOutcome = "rejected")
        => state.repositories = fetchResult

\* A refresh completes with its fetch and its save both successful.
RefreshSucceeds ==
    /\ rpc # "idle" /\ rpc' = "idle"
    /\ fpc' = "resolved"
    /\ saveOutcome' = "resolved"

\* A load completes with the cache read.
LoadSucceeds == lpc = "reading" /\ lpc' = "done"

\* C16 as stated: a step changes state.repositories only if it completes a
\* refresh whose fetch and save succeeded or a load whose read succeeded.
C16_OnlyFetchSaveOrLoad ==
    [][state'.repositories # state.repositories
          => (RefreshSucceeds \/ LoadSucceeds)]_vars

\* C16 amended: ... or if it is reset, which sets the initial state and so
\* empties the collection.
C16_OnlyFetchSaveLoadOrReset ==
    [][state'.repositories # state.repositories
          => (RefreshSucceeds \/ LoadSucceeds \/ state' = initialState)]_vars

\* C16 witness: reset was called after a refresh that had put fetched
\* repositories into the store.
C16_Witness ==
    /\ caller = "refresh" /\ rpc = "idle"
    /\ fpc = "resolved" /\ saveOutcome = "resolved"
    /\ fetchResult # <<>>
    /\ state = initialState

\* An entry <...[&?]page=N...>; rel="last" whose N starts with a digit.
ParseableLast(e) ==
    /\ e.rel = "last"
    /\ e.quoted
    /\ e.page # <<>>
    /\ Head(e.page) \in Digits

\* A run of digits without its leading zeros.
RECURSIVE StripZeros(_)
StripZeros(ds) ==
    IF Len(ds) > 1 /\ Head(ds) = "0" THEN StripZeros(Tail(ds)) ELSE ds

\* C17: getLastPage never throws; it returns 1 for a header (null, empty or
\* of any entries) without an entry <...page=N...>; rel="last" with N a
\* number, and otherwise the number such an entry carries: 5 for page=5.
C17_GetLastPage ==
    outLastPage # NoPage
        => /\ outLastPage # Threw
           /\ (\A i \in DOMAIN inHeader : ~ParseableLast(inHeader[i]))
                  => outLastPage = 1
           /\ (\E i \in DOMAIN inHeader : ParseableLast(inHeader[i]))
                  => \E i \in DOMAIN inHeader :
                        /\ ParseableLast(inHeader[i])
                        /\ Decimal(outLastPage)
                              = StripZeros(DigitsPrefix(inHeader[i].page))
           /\ inHeader = <<Link("next", 2), Link("last", 5)>> => outLastPage = 5

\* C17 witness: the header <...page=2>; rel="next", <...page=5>; rel="last".
C17_Witness ==
    /\ inHeader = <<Link("next", 2), Link("last", 5)>>
    /\ outLastPage = 5

\* The place of each name of the catalogue in the order of a locale-aware
\* comparison: ab, ba, Ba, ca.
NameRank(name) ==
    CASE name = <<"a", "b">> -> 1
      [] name = <<"b", "a">> -> 2
      [] name = <<"B", "a">> -> 3
      [] OTHER -> 4

\* Every adjacent pair of rs is in the order of the sort key.
RespectsKey(rs, key) ==
    \A i \in 1..(Len(rs) - 1) :
        /\ key = "stars" => rs[i].stargazers_count >= rs[i + 1].stargazers_count
        /\ key = "name" => NameRank(rs[i].name) <= NameRank(rs[i + 1].name)
        /\ key = "updated"
              => DateGetTime(rs[i].updated_at) >= DateGetTime(rs[i + 1].updated_at)

\* C18: for an empty or whitespace-only term the result holds every
\* repository of the collection once, in the order of the sort key (in the
\* order of the collection for relevance).
C18_BlankTermReturnsAll ==
    (spc = "done" /\ \A i \in DOMAIN inTerm : inTerm[i] = " ")
        => /\ Len(outResults) = Len(inRepos)
           /\ Range(outResults) = Range(inRepos)
           /\ RespectsKey(outResults, inSortBy)
           /\ inSortBy = "relevance" => outResults = inRepos

\* C18 witness: a whitespace-only term, three repositories that the sort by
\* name reorders.
C18_Witness ==
    /\ spc = "done"
    /\ inTerm = <<" ", " ">>
    /\ inSortBy = "name"
    /\ Len(inRepos) = 3
    /\ outResults # inRepos

\* C19: for a term whose trimmed length is 1 the result is empty.
C19_OneCharacterTermEmpty ==
    (spc = "done" /\ Len(Trim(inTerm)) = 1) => outResults = <<>>

\* C20: every adjacent pair of the result is in the order of the sort key:
\* stargazers_count descending, name ascending in locale order, parsed
\* updated_at descending.
C20_AdjacentPairsOrdered ==
    spc = "done" => RespectsKey(outResults, inSortBy)

\* C20 witness: a search that matched three repositories, sorted by name
\* into another order than the collection's.
C20_Witness ==
    /\ spc = "done"
    /\ inTerm = <<"a", "b">>
    /\ inSortBy = "name"
    /\ Len(outResults) = 3
    /\ \E i, j \in DOMAIN inRepos : i < j /\ NameRank(inRepos[i].name) > NameRank(inRepos[j].name)

\* The place of x in the sequence seq, which holds it once.
Pos(seq, x) == CHOOSE i \in DOMAIN seq : seq[i] = x

\* The adjacent pairs of rs are in ascending score(_), equal scores in the
\* order of the collection.
AscendingScore(rs, score(_), collection) ==
    \A i \in 1..(Len(rs) - 1) :
        \/ score(rs[i]) < score(rs[i + 1])
        \/ /\ score(rs[i]) = score(rs[i + 1])
           /\ Pos(collection, rs[i]) < Pos(collection, rs[i + 1])

\* C21: sorted by relevance, the results of sortRepositories and of a search
\* are in ascending score (a missing score counting as 0), equal scores in
\* the order of the collection; without a term the result is the collection.
C21_RelevanceOrder ==
    inSortBy = "relevance"
        => /\ spc = "sorted"
                => /\ Len(outResults) = Len(inRepos)
                   /\ AscendingScore(outResults,
                         LAMBDA r : IF inScores[Pos(inRepos, r)] = NoScore THEN 0
                                    ELSE inScores[Pos(inRepos, r)],
                         inRepos)
           /\ (spc = "done" /\ Trim(inTerm) # <<>>)
                => AscendingScore(outResults, LAMBDA r : ItemScore(inTerm, r), inRepos)
           /\ (spc = "done" /\ Trim(inTerm) = <<>>) => outResults = inRepos

\* C21 witness: three results whose scores are 200, missing and 0, which
\* the sort reorders keeping the two that count as 0 in their order.
C21_Witness ==
    /\ spc = "sorted"
    /\ inSortBy = "relevance"
    /\ inScores = <<200, NoScore, 0>>
    /\ outResults = <<inRepos[2], inRepos[3], inRepos[1]>>

\* C22: for the collection and the term of a search, searchRepositories
\* returns the same repositories under every sort key, each of them once.
C22_SameSetUnderEverySortKey ==
    spc = "done"
        => \A key \in SortOptions :
              LET other == searchRepositories(inRepos, inTerm, key)
              IN  /\ Range(other) = Range(outResults)
                  /\ Len(other) = Len(outResults)
                  /\ Cardinality(Range(other)) = Len(other)

\* C22 witness: a term that one repository of three matches was searched,
\* and the result is that repository.
C22_Witness ==
    /\ spc = "done"
    /\ inTerm = <<"b", "b">>
    /\ Len(inRepos) = 3
    /\ Len(outResults) = 1
    /\ outResults[1].id = 4
    /\ \A key \in SortOptions : searchRepositories(inRepos, inTerm, key) = outResults

\* C23: the step that ends load leaves loading false; after a successful
\* read repositories is what the cache held and error is null; after a
\* failed read repositories is what it was and error is the message of the
\* failure.  Both ends are load's promise resolving.
C23_LoadEnds ==
    [][/\ (lpc = "reading" /\ lpc' = "done")
            => /\ state'.repositories = getCachedStars(cache)
               /\ state'.error = NULL
               /\ ~state'.loading
       /\ (lpc = "reading" /\ lpc' = "failed")
            => /\ state'.repositories = state.repositories
               /\ state'.error = GetAllMessage
               /\ ~state'.loading
       /\ lpc = "reading" => lpc' \in {"reading", "done", "failed"}]_vars

\* C23 witness: a load failed after a refresh had filled repositories, and
\* the repositories are still there under the error.
C23_Witness ==
    /\ lpc = "failed"
    /\ state.repositories # <<>>
    /\ state.error = GetAllMessage
    /\ ~state.loading

C25_VisibleOnlyInFlight ==
    rpc = "idle" => ~progress.visible

\* C25 witness: a refresh failed on one page while another page was still
\* outstanding; that page then reported progress, and the indicator is
\* hidden all the same.
C25_Witness ==
    /\ caller = "refresh"
    /\ rpc = "idle"
    /\ state.error # NULL
    /\ progress.total > 0
    /\ ~progress.visible

\* C26: a timer writes debouncedTerm only if it is the one of the most
\* recent setTerm and debounceMs have passed since that call, so a term a
\* later setTerm superseded is never written; and once more than debounceMs
\* have passed since the last setTerm, with no clear, reset or destroy
\* after it, debouncedTerm is its term and isSearching is false.
C26_Debounce ==
    /\ [](\A i \in DOMAIN timers :
            (i = Len(timers) /\ ~timers[i].orphaned
                /\ clock > timers[i].set + DebounceMs)
                => /\ searchState.debouncedTerm = timers[i].term
                   /\ ~searchState.isSearching)
    /\ [][/\ \A i \in DOMAIN timers :
              (timers[i].status = "pending" /\ timers'[i].status = "fired")
                  => /\ i = Len(timers)
                     /\ clock >= timers[i].set + DebounceMs
                     /\ searchState'.debouncedTerm = searchState.term
          /\ searchState'.debouncedTerm # searchState.debouncedTerm
                  => \/ \E i \in DOMAIN timers :
                           timers[i].status = "pending" /\ timers'[i].status = "fired"
                     \/ searchState'.debouncedTerm = ""]_vars

\* C26 witness: three terms were set in a row; the timers of the first two
\* were cleared and the third wrote its term.
C26_Witness ==
    /\ Len(timers) = 3
    /\ timers[1].status = "cleared" /\ timers[2].status = "cleared"
    /\ timers[3].status = "fired"
    /\ timers[2].term # timers[3].term
    /\ timers[2].set < timers[3].set
    /\ searchState.debouncedTerm = timers[3].term
    /\ ~searchState.isSearching

\* C27: a timer that was pending when destroy, clear or reset was called
\* never fires.
C27_CancelledTimerNeverFires ==
    [][\A i \in DOMAIN timers :
          (timers[i].orphaned /\ timers[i].status = "pending")
              => timers'[i].status # "fired"]_vars
    /\ [](\A i \in DOMAIN timers :
            (timers[i].orphaned /\ timers[i].status # "fired")
                => timers[i].status = "cleared")

\* C27 witness: destroy was called while the timer of "react" was pending;
\* its time has passed and debouncedTerm is still empty.
C27_Witness ==
    /\ Len(timers) = 1
    /\ timers[1].term = "react"
    /\ timers[1].orphaned
    /\ timers[1].status = "cleared"
    /\ clock > timers[1].due
    /\ searchState.isSearching
    /\ searchState.debouncedTerm = ""

\* C28: setUsername and setToken raise isDirty; the step that ends a save
\* or a load in success leaves isDirty false, loading false and error null;
\* the step that fails a save leaves loading false, error the message of
\* the failure and isDirty as it was, and calls setGitHubToken not; and
\* setGitHubToken is called only in the step after which both writes of
\* the save have succeeded, with the token written, which is not empty.
C28_SettingsOutcomes ==
    [][/\ \A u \in SettingNames : SettingsSetUsername(u) => settingsState'.isDirty
       /\ \A t \in SettingTokens : SettingsSetToken(t) => settingsState'.isDirty
       /\ ( /\ settingsPc # "idle" /\ settingsPc' = "idle"
            /\ \/ \E i \in DOMAIN settingsWrites : SettingsPutSuccess(i)
               \/ \E k \in DOMAIN settingsReads : SettingsGetSuccess(k) )
            => /\ ~settingsState'.isDirty
               /\ ~settingsState'.loading
               /\ settingsState'.error = NULL
       /\ ( /\ settingsPc = "saving" /\ settingsPc' = "idle"
            /\ \E i \in DOMAIN settingsWrites : SettingsPutError(i) )
            => /\ ~settingsState'.loading
               /\ settingsState'.error = "The transaction was aborted"
               /\ settingsState'.isDirty = settingsState.isDirty
               /\ gitHubTokenCalls' = gitHubTokenCalls
       /\ gitHubTokenCalls' # gitHubTokenCalls
            => /\ settingsPc = "saving"
               /\ Len(gitHubTokenCalls') = Len(gitHubTokenCalls) + 1
               /\ LET n == Len(settingsWrites')
                      passed == gitHubTokenCalls'[Len(gitHubTokenCalls')]
                  IN  /\ settingsWrites'[n].status = "ok"
                      /\ settingsWrites'[n - 1].status = "ok"
                      /\ settingsWrites'[n].name = "token"
                      /\ settingsWrites'[n].value = passed
                      /\ passed # ""]_vars

\* C28 witness: a save of an edited form failed on the token's write after
\* the username's had succeeded: the form is still dirty, the error is
\* set and setGitHubToken was not called.
C28_Witness ==
    /\ settingsPc = "idle"
    /\ Len(settingsWrites) = 2
    /\ settingsWrites[1].status = "ok"
    /\ settingsWrites[2].status = "fail"
    /\ settingsWrites[2].value = "ghp_tok"
    /\ settingsState.isDirty
    /\ ~settingsState.loading
    /\ settingsState.error = PutMessage
    /\ gitHubTokenCalls = <<>>

\* C29: the step that ends an execute leaves loading false; after a
\* success data is the result, error is null and execute returns the
\* result; after a failure data is null and error is the message of what
\* was thrown, and execute returns null, or with throwOnError throws what
\* was thrown, the state being updated in the same step.
C29_ExecuteEnds ==
    [][/\ \A i \in DOMAIN asyncCalls : \A result \in OperationResults :
              OperationResolves(i, result)
                  => /\ asyncState' = [data |-> result, loading |-> FALSE, error |-> NULL]
                     /\ asyncCalls'[i] = [status |-> "returned", value |-> result]
       /\ \A i \in DOMAIN asyncCalls : \A e \in Thrown :
              OperationRejects(i, e)
                  => /\ asyncState'.data = NULL
                     /\ ~asyncState'.loading
                     /\ asyncState'.error =
                            (IF e.kind = "object" THEN "Unknown error occurred"
                             ELSE e.message)
                     /\ asyncCalls'[i] =
                            (IF throwOnError THEN [status |-> "threw", value |-> e]
                             ELSE [status |-> "returned", value |-> NULL])
       /\ \A i \in DOMAIN asyncCalls :
              (asyncCalls[i].status = "pending" /\ asyncCalls'[i].status # "pending")
                  => ~asyncState'.loading]_vars

\* C29 witness: with throwOnError an execute threw the string its
\* operation had thrown, after an earlier execute had returned a result;
\* data is null again and error is the string.
C29_Witness ==
    /\ throwOnError
    /\ Len(asyncCalls) = 2
    /\ asyncCalls[1].status = "returned" /\ asyncCalls[1].value = "r1"
    /\ asyncCalls[2].status = "threw" /\ asyncCalls[2].value.kind = "string"
    /\ asyncState = [data |-> NULL, loading |-> FALSE, error |-> "oops"]

\* C30: get(key), called at time t after a set of the key at setTime that
\* stored a value with the given ttl, or with 300000 ms when none was
\* given, returns the value and keeps the entry if t - setTime <= ttl, and
\* returns null and removes the entry if t - setTime > ttl.
C30_GetWithinTtl ==
    [][\A key \in CacheKeys :
          (CacheGet(key) /\ lastSet[key].called /\ lastSet[key].ttl > 0)
              => IF dateNow - lastSet[key].time <= lastSet[key].ttl
                 THEN /\ cacheOut'.value = lastSet[key].data
                      /\ serviceCache'[key].present
                      /\ serviceCache'[key].data = lastSet[key].data
                 ELSE /\ cacheOut'.value = NULL
                      /\ ~serviceCache'[key].present]_vars

\* C30 witness: a value set without ttl is read exactly 300000 ms later and
\* returned.
C30_Witness ==
    /\ cacheOut.op = "get"
    /\ cacheOut.value = "value"
    /\ lastSet[cacheOut.key].called
    /\ lastSet[cacheOut.key].ttl = 300000
    /\ dateNow - lastSet[cacheOut.key].time = 300000
    /\ serviceCache[cacheOut.key].present

\* C31: get(key), called after a set of the key with a ttl of zero or less,
\* returns null, whatever the cache held under the key before that set.
C31_ZeroTtlReadsNull ==
    [][\A key \in CacheKeys :
          (CacheGet(key) /\ lastSet[key].called /\ lastSet[key].ttl <= 0)
              => cacheOut'.value = NULL]_vars

\* An entry that get would return at time now.
Live(entry, now) == entry.present /\ now - entry.timestamp <= entry.ttl

\* C32: getOrSet returns the cached value and does not invoke computeFn
\* when a live entry exists for the key, and invokes computeFn otherwise;
\* when computeFn resolves, the result is stored under the key with the
\* given ttl and returned; when it rejects, getOrSet rejects and the cache
\* is left as it was.
C32_GetOrSet ==
    [][/\ \A key \in CacheKeys : \A given \in BOOLEAN : \A ttl \in Ttls :
              GetOrSetCall(key, given, ttl)
                  => LET call == getOrSets'[Len(getOrSets')]
                     IN  IF Live(serviceCache[key], dateNow)
                         THEN /\ call.status = "hit"
                              /\ call.value = serviceCache[key].data
                         ELSE call.status = "pending"
       /\ \A i \in DOMAIN getOrSets : \A computed \in ComputedValues :
              ComputeResolves(i, computed)
                  => /\ getOrSets'[i].status = "resolved"
                     /\ getOrSets'[i].value = computed
                     /\ getOrSets[i].ttl > 0
                            => serviceCache'[getOrSets[i].key] =
                                  [present |-> TRUE, data |-> computed,
                                   timestamp |-> dateNow, ttl |-> getOrSets[i].ttl]
       /\ \A i \in DOMAIN getOrSets :
              ComputeRejects(i)
                  => /\ getOrSets'[i].status = "rejected"
                     /\ serviceCache' = serviceCache]_vars

\* C33: computeFn is invoked at most once for a key while the entry it
\* produces has not expired: of two getOrSet calls for the key that both
\* invoked computeFn, the earlier one was rejected, or stored nothing
\* (ttl <= 0), or had resolved and its entry had expired when the later
\* one was made.
C33_ComputeOnce ==
    \A i \in DOMAIN getOrSets : \A j \in DOMAIN getOrSets :
        (/\ i < j
         /\ getOrSets[i].key = getOrSets[j].key
         /\ getOrSets[i].status # "hit"
         /\ getOrSets[j].status # "hit")
            => \/ getOrSets[i].status = "rejected"
               \/ getOrSets[i].ttl <= 0
               \/ /\ getOrSets[i].status = "resolved"
                  /\ getOrSets[j].at > getOrSets[i].doneAt + getOrSets[i].ttl

\* C40: has(key), called after set(key, value, ttl) with a positive ttl and
\* before the entry expires, answers true whatever the stored value is,
\* null included.
C40_HasStoredValue ==
    [][\A key \in CacheKeys :
          (/\ CacheHas(key)
           /\ lastSet[key].called
           /\ lastSet[key].ttl > 0
           /\ dateNow - lastSet[key].time <= lastSet[key].ttl)
              => cacheOut'.flag]_vars

\* C38: isSearching is true exactly when a debounce timer is pending.
C38_SearchingIffPending ==
    searchState.isSearching
        <=> \E i \in DOMAIN timers : timers[i].status = "pending"

\* C37: a step after which isDirty is false and no save or load is in
\* flight leaves the username and token in memory equal to the values last
\* persisted or loaded: those the save that ends wrote, those the load that
\* ends read, and otherwise those in memory before the step.
C37_CleanMeansPersisted ==
    [][(settingsPc' = "idle" /\ ~settingsState'.isDirty)
          => /\ settingsPc = "saving"
                  => /\ settingsState'.username = currentState.username
                     /\ settingsState'.token = currentState.token
             /\ (settingsPc = "loading" /\ settingsState'.error = NULL)
                  => /\ settingsState'.username = OrEmpty(settingsReads'[1].value)
                     /\ settingsState'.token = OrEmpty(settingsReads'[2].value)
             /\ settingsPc = "idle"
                  => /\ settingsState'.username = settingsState.username
                     /\ settingsState'.token = settingsState.token]_vars

\* C36: every request of a fetch cycle carries the token the first request
\* of the cycle carried, which is the token in force when the cycle began.
C36_OneCredentialPerCycle ==
    \A i \in DOMAIN carried : carried[i] = carried[1]

\* C34: loading is true whenever a load or a refresh is in flight.
C34_BusyWhileInFlight ==
    (rpc # "idle" \/ lpc = "reading") => state.loading

\* C35: a load or a refresh in flight leads to a state in which none is in
\* flight and loading is false.
C35_OperationsEnd ==
    (lpc = "reading" \/ rpc # "idle")
        ~> (lpc # "reading" /\ rpc = "idle" /\ ~state.loading)

\* C39: currentError is null or one of the records in errors, and
\* removeError with the id of another record than the current one leaves
\* currentError as it was.
C39_CurrentErrorListed ==
    /\ [](\/ errorState.currentError = NoError
          \/ \E i \in DOMAIN errorState.errors :
                errorState.errors[i] = errorState.currentError)
    /\ [][\A errorId \in ErrorIds :
             (RemoveError(errorId) /\ errorState.currentError.id # errorId)
                 => errorState'.currentError = errorState.currentError]_vars

\* C39 witness: of two errors handled the first was removed; the second is
\* still the current one and the only one listed.
C39_Witness ==
    /\ errorCount = 2
    /\ Len(errorState.errors) = 1
    /\ errorState.errors[1].n = 2
    /\ errorState.currentError = errorState.errors[1]
====
